---- MODULE Spec2Model ----
(***************************************************************************)
(* Model of the Foodiee recipe backend (src/backend_recipe).               *)
(*                                                                         *)
(* Part 1: the in-memory session table (config.user_sessions) and the      *)
(* session-scoped HTTP handlers of api/preferences.py, api/recipes.py,     *)
(* api/images.py and api/sessions.py.  Every handler is an `async def`     *)
(* without a single `await`, so the event loop runs it to completion: one  *)
(* handler is one atomic action.                                           *)
(*                                                                         *)
(* Session fields modelled: current_recipe, current_step_index,            *)
(* recipe_steps, recipe_history.  The fields preferences, recipe_mapping,  *)
(* ingredients and tips and the history entry's wall-clock timestamp are   *)
(* written but never read by a handler's control flow and are left out.    *)
(***************************************************************************)
EXTENDS Integers, Sequences, FiniteSets, TLC

\* ------------------------------------------------------------------ bounds
\* Longest step list the recipe parser hands to the detail endpoint.
MaxSteps == 2
\* Most next_step requests accepted but not yet run, per session (SpecRace).
MaxPending == 2
\* Most candidate names handed to the LLM ranker.
MaxNames == 2
\* Most lines of an LLM response.
MaxLines == 3

\* The 32-bit id space of uuid4().hex[:8], cut down to two values.
Ids == {"session_a", "session_b"}
\* Recipe names a client asks details for.
Names == {"Kadai Paneer", "Recipe 2"}
\* The image prompt the LLM synthesises.
Prompts == {"prompt"}

None == "None"
NoSid == "-"

VARIABLES
    user_sessions,  \* config.user_sessions: session id -> session dict
    resp,           \* the HTTP response of the request handled last
    issued,         \* history: ids returned by submit_preferences so far
    walk,           \* history: per id, next_step calls since the recipe was loaded
    pending,        \* per id, next_step requests accepted and not yet run
    call,           \* the last call of a pure function: its input and its result
    top_recipes,    \* the top_recipes table: recipe id -> row
    users,          \* the users table: email -> row
    db              \* the bulk generator's SQLite file: the committed rows

vars == <<user_sessions, resp, issued, walk, pending, call, top_recipes, users, db>>

\* ------------------------------------------------------------ data shapes
Min(a, b) == IF a < b THEN a ELSE b

\* The step list parse_recipe_steps returns for a recipe: n instruction strings.
ParsedSteps(name, n) == [i \in 1..n |-> <<name, i>>]

\* preferences.py: the dict stored for a new session
NewSession ==
    [current_recipe     |-> None,
     current_step_index |-> 0,
     recipe_steps       |-> <<>>,
     recipe_history     |-> <<>>]

\* next_step mutant: the entry carries the zero-based index
history_entry_zero_based(current_index, current_step) ==
    [step_number     |-> current_index,
     step_text       |-> current_step,
     image_generated |-> FALSE,
     image_prompt    |-> None]

\* recipes.py: the history entry next_step appends
history_entry(current_index, current_step) ==
    [step_number     |-> current_index + 1,
     step_text       |-> current_step,
     image_generated |-> FALSE,
     image_prompt    |-> None]

Response(op, sid, status, completed) ==
    [op |-> op, sid |-> sid, status |-> status, completed |-> completed]

\* walk[s]: calls = next_step calls answered 200 since the detail endpoint
\* loaded the recipe with nothing else touching the session (-1: no such
\* walk is under way), done = those of them that carried completed = true.
\* The counters saturate two calls past the longest step list.
NoWalk == [calls |-> -1, done |-> 0]
FreshWalk == [calls |-> 0, done |-> 0]
WalkCap == MaxSteps + 2

\* pending[s]: inflight = next_step requests accepted and not yet run,
\* appended = requests of the current overlapping batch that appended a
\* history entry (a batch starts when a second request is accepted while one
\* is in flight and ends when none is in flight).
NoPending == [inflight |-> 0, appended |-> 0]

Put(f, k, v) == [x \in DOMAIN f \cup {k} |-> IF x = k THEN v ELSE f[x]]
Drop(f, k) == [x \in DOMAIN f \ {k} |-> f[x]]

\* ------------------------------------------------------------------- Init
Init ==
    /\ user_sessions = << >>
    /\ resp = Response("none", NoSid, 0, FALSE)
    /\ issued = {}
    /\ walk = [s \in Ids |-> NoWalk]
    /\ pending = [s \in Ids |-> NoPending]
    /\ top_recipes = << >>
    /\ users = << >>
    /\ db = {}
    /\ call = [fn |-> "none"]

\* --------------------------------------------------------------- handlers
\* submit_preferences mutant: the id is returned but the session never stored
submit_preferences_unstored(session_id, recommender_ok) ==
    /\ UNCHANGED user_sessions
    /\ resp' = IF recommender_ok
                 THEN Response("submit", session_id, 200, FALSE)
                 ELSE Response("submit", NoSid, 500, FALSE)

\* POST /api/preferences.  The id is uuid4().hex[:8]: any value of the id
\* space, stored without a membership test.  The session is stored before
\* the recommender runs; when the recommender raises the handler answers 500.
submit_preferences(session_id, recommender_ok) ==
    /\ user_sessions' = Put(user_sessions, session_id, NewSession)
    /\ resp' = IF recommender_ok
                 THEN Response("submit", session_id, 200, FALSE)
                 ELSE Response("submit", NoSid, 500, FALSE)

\* POST /api/recipe/details.  n < 0 stands for get_detailed_recipe or
\* parse_recipe_steps raising, which happens before the session is written.
\* response_ok = FALSE: RecipeDetailResponse(...) raises after the session
\* was written (tips: str is given None when the row's tips column is NULL);
\* the except clause turns either exception into a 500.
get_recipe_details(session_id, recipe_name, n, response_ok) ==
    IF session_id \notin DOMAIN user_sessions
      THEN /\ resp' = Response("details", session_id, 404, FALSE)
           /\ UNCHANGED user_sessions
      ELSE IF n < 0
        THEN /\ resp' = Response("details", session_id, 500, FALSE)
             /\ UNCHANGED user_sessions
        ELSE /\ user_sessions' = [user_sessions EXCEPT ![session_id] =
                    [current_recipe     |-> recipe_name,
                     current_step_index |-> 0,
                     recipe_steps       |-> ParsedSteps(recipe_name, n),
                     recipe_history     |-> <<>>]]
             /\ resp' = Response("details", session_id,
                                 IF response_ok THEN 200 ELSE 500, FALSE)

\* next_step mutant: the completion signal one call early
WalkCompleted_early(current_index, steps) == current_index + 1 >= Len(steps)

\* recipes.py: next_step's test for the completion signal
WalkCompleted(current_index, steps) == current_index >= Len(steps)

\* next_step mutant: a completion call still moves the cursor
completion_signal_counting(session_id) ==
    /\ resp' = Response("next", session_id, 200, TRUE)
    /\ user_sessions' = [user_sessions EXCEPT ![session_id].current_step_index = @ + 1]

\* recipes.py: next_step's answer once every step has been served
completion_signal(session_id) ==
    /\ resp' = Response("next", session_id, 200, TRUE)
    /\ UNCHANGED user_sessions

\* next_step mutant: the cursor is not written back
advance_no_increment(session, current_index, steps) ==
    [session EXCEPT
       !.recipe_history = Append(session.recipe_history,
           history_entry(current_index, steps[current_index + 1]))]

\* recipes.py: next_step serving steps[current_index]
advance(session, current_index, steps) ==
    [session EXCEPT
       !.current_step_index = current_index + 1,
       !.recipe_history = Append(session.recipe_history,
           history_entry(current_index, steps[current_index + 1]))]

\* POST /api/step/next
next_step(session_id) ==
    IF session_id \notin DOMAIN user_sessions
      THEN /\ resp' = Response("next", session_id, 404, FALSE)
           /\ UNCHANGED user_sessions
      ELSE LET session == user_sessions[session_id]
               current_index == session.current_step_index
               steps == session.recipe_steps
           IN IF steps = <<>>
                THEN /\ resp' = Response("next", session_id, 400, FALSE)
                     /\ UNCHANGED user_sessions
                ELSE IF WalkCompleted(current_index, steps)
                  THEN completion_signal(session_id)
                  ELSE /\ user_sessions' = [user_sessions EXCEPT ![session_id] =
                              advance(session, current_index, steps)]
                       /\ resp' = Response("next", session_id, 200, FALSE)

\* POST /api/step/skip
skip_to_alternatives(session_id) ==
    IF session_id \notin DOMAIN user_sessions
      THEN /\ resp' = Response("skip", session_id, 404, FALSE)
           /\ UNCHANGED user_sessions
      ELSE LET session == user_sessions[session_id]
               steps == session.recipe_steps
           IN /\ user_sessions' = [user_sessions EXCEPT ![session_id] =
                     [session EXCEPT !.current_step_index = Len(steps) + 1]]
              /\ resp' = Response("skip", session_id, 200, FALSE)

\* update_session_history mutant: the first entry is marked, not the last
update_session_history_first(session, current_index, description) ==
    LET h == session.recipe_history
    IN IF h # <<>> /\ h[Len(h)].step_number = current_index
         THEN [session EXCEPT !.recipe_history =
                 [h EXCEPT ![1] = [@ EXCEPT !.image_generated = TRUE,
                                            !.image_prompt = description]]]
         ELSE session

\* update_session_history mutant: the marked entry replaces the whole history
update_session_history_last_only(session, current_index, description) ==
    LET h == session.recipe_history
    IN IF h # <<>> /\ h[Len(h)].step_number = current_index
         THEN [session EXCEPT !.recipe_history =
                 <<[h[Len(h)] EXCEPT !.image_generated = TRUE,
                                     !.image_prompt = description]>>]
         ELSE session

\* image_helpers.py / images.py: mark the last history entry
update_session_history(session, current_index, description) ==
    LET h == session.recipe_history
    IN IF h # <<>> /\ h[Len(h)].step_number = current_index
         THEN [session EXCEPT !.recipe_history =
                 [h EXCEPT ![Len(h)] = [@ EXCEPT !.image_generated = TRUE,
                                                 !.image_prompt = description]]]
         ELSE session

\* POST /api/step/image.  generate_ok = FALSE stands for generate_image raising.
generate_step_image(session_id, description, generate_ok) ==
    IF session_id \notin DOMAIN user_sessions
      THEN /\ resp' = Response("image", session_id, 404, FALSE)
           /\ UNCHANGED user_sessions
      ELSE LET session == user_sessions[session_id]
               steps == session.recipe_steps
               current_index == IF session.current_step_index = 0
                                  THEN 1 ELSE session.current_step_index
           IN IF steps = <<>> \/ current_index > Len(steps)
                THEN /\ resp' = Response("image", session_id, 400, FALSE)
                     /\ UNCHANGED user_sessions
                ELSE IF ~generate_ok
                  THEN /\ resp' = Response("image", session_id, 500, FALSE)
                       /\ UNCHANGED user_sessions
                  ELSE /\ user_sessions' = [user_sessions EXCEPT ![session_id] =
                              update_session_history(session, current_index, description)]
                       /\ resp' = Response("image", session_id, 200, FALSE)

\* POST /api/step/gemini_image: the same checks and the same history update.
\* generated = "raises": one of the two generator calls raises, which this
\* handler does not catch; "null": no image came back; "image": the base64
\* string that came back has no save(), which raises after the history update.
GeneratedOutcomes == {"raises", "null", "image"}
generate_gemini_image(session_id, description, generated) ==
    IF session_id \notin DOMAIN user_sessions
      THEN /\ resp' = Response("gemini_image", session_id, 404, FALSE)
           /\ UNCHANGED user_sessions
      ELSE LET session == user_sessions[session_id]
               steps == session.recipe_steps
               current_index == IF session.current_step_index = 0
                                  THEN 1 ELSE session.current_step_index
           IN IF steps = <<>> \/ current_index > Len(steps)
                THEN /\ resp' = Response("gemini_image", session_id, 400, FALSE)
                     /\ UNCHANGED user_sessions
                ELSE IF generated = "raises"
                  THEN /\ resp' = Response("gemini_image", session_id, 500, FALSE)
                       /\ UNCHANGED user_sessions
                  ELSE /\ user_sessions' = [user_sessions EXCEPT ![session_id] =
                              update_session_history(session, current_index, description)]
                       /\ resp' = Response("gemini_image", session_id,
                                           IF generated = "image" THEN 500 ELSE 200, FALSE)

\* POST /api/ingredients/alternatives.  llm_ok = FALSE: the LLM call raises.
get_alternatives(session_id, llm_ok) ==
    /\ resp' = Response("alternatives", session_id,
                        IF session_id \notin DOMAIN user_sessions THEN 404
                        ELSE IF llm_ok THEN 200 ELSE 500, FALSE)
    /\ UNCHANGED user_sessions

\* GET /api/session/{id}
get_session_info(session_id) ==
    /\ resp' = Response("info", session_id,
                        IF session_id \notin DOMAIN user_sessions THEN 404 ELSE 200, FALSE)
    /\ UNCHANGED user_sessions

\* GET /api/session/{id}/history and GET /api/history/{id}
get_session_step_history(session_id) ==
    /\ resp' = Response("history", session_id,
                        IF session_id \notin DOMAIN user_sessions THEN 404 ELSE 200, FALSE)
    /\ UNCHANGED user_sessions

\* delete_session mutant: user_sessions.pop(session_id, None), no 404
delete_session_pop(session_id) ==
    /\ user_sessions' = Drop(user_sessions, session_id)
    /\ resp' = Response("delete", session_id, 200, FALSE)

\* DELETE /api/session/{id}
delete_session(session_id) ==
    IF session_id \notin DOMAIN user_sessions
      THEN /\ resp' = Response("delete", session_id, 404, FALSE)
           /\ UNCHANGED user_sessions
      ELSE /\ user_sessions' = Drop(user_sessions, session_id)
           /\ resp' = Response("delete", session_id, 200, FALSE)

\* ---------------------------------------------------------------------------
\* Part 2: text handling of core/optimized_recommender.py.  A string is a
\* sequence of one-character strings, so that the regular expressions and
\* difflib work on characters as the code's do.
\* ---------------------------------------------------------------------------
Digits == {"0", "1", "2", "3", "4", "5", "6", "7", "8", "9"}
Whitespace == {" "}
IsSpace(c) == c \in Whitespace

\* str.lower() on the letters the model's strings use
Lower(c) ==
    CASE c = "R" -> "r" [] c = "E" -> "e" [] c = "C" -> "c" [] c = "I" -> "i"
      [] c = "P" -> "p" [] c = "D" -> "d" [] c = "F" -> "f" [] c = "K" -> "k"
      [] OTHER -> c
LowerStr(s) == [i \in 1..Len(s) |-> Lower(s[i])]

\* Length of the longest run of characters of the class chars (Digits for \d,
\* Whitespace for \s) that starts at position `from` of s.
Span(s, from, chars) ==
    LET runs == {k \in 0..(Len(s) + 1 - from) : \A i \in from..(from + k - 1) : s[i] \in chars}
    IN IF from > Len(s) THEN 0
       ELSE CHOOSE k \in runs : \A j \in runs : j <= k

DropFirst(s, k) == SubSeq(s, k + 1, Len(s))

\* str.strip()
RECURSIVE RStrip(_)
RStrip(s) == IF s # <<>> /\ IsSpace(s[Len(s)]) THEN RStrip(SubSeq(s, 1, Len(s) - 1)) ELSE s
Strip(s) == RStrip(DropFirst(s, Span(s, 1, Whitespace)))

\* get_detailed_recipe mutant: the leading numbering is kept
StripNumbering_none(s) == s

\* re.sub(r'^\d+\.\s*', '', recipe_name)
StripNumbering(s) ==
    LET d == Span(s, 1, Digits)
    IN IF d >= 1 /\ d < Len(s) /\ s[d + 1] = "."
         THEN DropFirst(s, d + 1 + Span(s, d + 2, Whitespace))
         ELSE s

\* Index of the first "-" of s, 0 when there is none.
FirstDash(s) ==
    IF \E i \in 1..Len(s) : s[i] = "-"
      THEN CHOOSE i \in 1..Len(s) : s[i] = "-" /\ \A j \in 1..(i - 1) : s[j] # "-"
      ELSE 0

\* re.sub(r'\s*-\s*.*$', '', clean_name): everything from the whitespace in
\* front of the first "-" on is removed.
StripDashComment(s) ==
    IF FirstDash(s) = 0 THEN s ELSE RStrip(SubSeq(s, 1, FirstDash(s) - 1))

\* get_detailed_recipe: clean_name
CleanName(recipe_name) ==
    Strip(StripDashComment(Strip(StripNumbering(recipe_name))))

\* re.match(r'^Recipe\s+\d+$', clean_name, re.IGNORECASE)
IsPlaceholder(clean_name) ==
    LET w == Span(clean_name, 7, Whitespace)
        d == Span(clean_name, 7 + w, Digits)
    IN /\ Len(clean_name) >= 8
       /\ LowerStr(SubSeq(clean_name, 1, 6)) = <<"r", "e", "c", "i", "p", "e">>
       /\ w >= 1 /\ d >= 1
       /\ 6 + w + d = Len(clean_name)

\* PostgreSQL `name ILIKE pattern` for the three shapes of pattern the code
\* builds: the text itself, text%, %text%.
IsPrefixOf(p, s) == Len(p) <= Len(s) /\ SubSeq(s, 1, Len(p)) = p
ILike(name, kind, text) ==
    LET n == LowerStr(name)
        x == LowerStr(text)
    IN CASE kind = "exact"     -> n = x
         [] kind = "prefix"    -> IsPrefixOf(x, n)
         [] kind = "substring" -> \E i \in 0..Len(n) : IsPrefixOf(x, DropFirst(n, i))

\* One `SELECT ... WHERE name ILIKE %s LIMIT 1` against the recipes table.
Hit(store, kind, text) == \E name \in store : ILike(name, kind, text)

\* get_detailed_recipe mutant: every fuzzy pattern is queried, hit or not
RECURSIVE FuzzySearch_all(_, _, _)
FuzzySearch_all(store, kinds, text) ==
    IF kinds = <<>> THEN [queries |-> <<>>, found |-> FALSE]
    ELSE LET rest == FuzzySearch_all(store, Tail(kinds), text)
         IN [queries |-> <<Head(kinds)>> \o rest.queries,
             found |-> Hit(store, Head(kinds), text) \/ rest.found]

\* get_detailed_recipe: the fuzzy patterns, tried in order until one hits
RECURSIVE FuzzySearch(_, _, _)
FuzzySearch(store, kinds, text) ==
    IF kinds = <<>> THEN [queries |-> <<>>, found |-> FALSE]
    ELSE IF Hit(store, Head(kinds), text)
      THEN [queries |-> <<Head(kinds)>>, found |-> TRUE]
      ELSE LET rest == FuzzySearch(store, Tail(kinds), text)
           IN [queries |-> <<Head(kinds)>> \o rest.queries, found |-> rest.found]

\* OptimizedRecipeRecommender.get_detailed_recipe: queries = the SELECTs
\* issued against the recipes table, in order; route = where the returned
\* recipe comes from; raised = the freeform LLM generation failed and the
\* method raised ValueError.
get_detailed_recipe(recipe_name, store, llm_ok) ==
    LET clean_name == CleanName(recipe_name)
        by_name == Hit(store, "exact", clean_name)
        fuzzy == IF ~by_name /\ Len(clean_name) > 3
                   THEN FuzzySearch(store, <<"exact", "prefix", "substring">>, clean_name)
                   ELSE [queries |-> <<>>, found |-> FALSE]
    IN IF IsPlaceholder(clean_name)
         THEN [clean_name |-> clean_name, queries |-> <<>>,
               route |-> "llm", raised |-> ~llm_ok]
         ELSE IF by_name \/ fuzzy.found
           THEN [clean_name |-> clean_name,
                 queries |-> <<"by_name">> \o fuzzy.queries,
                 route |-> "db", raised |-> FALSE]
           ELSE [clean_name |-> clean_name,
                 queries |-> <<"by_name">> \o fuzzy.queries,
                 route |-> "llm", raised |-> ~llm_ok]

\* ---- the recipe names a client sends: numbering, name, trailing comment
Cat3(a, b, c) == a \o b \o c
NameNumberings ==
    {<<>>, <<"1", ".", " ">>, <<"1", "2", ".", " ">>, <<"3", ".">>, <<"2", ".", " ", " ">>}
NameComments ==
    {<<>>, <<" ", "-", " ", "o", "k">>, <<" ", "-", " ", "a", "-", "b">>, <<" ", "-">>}
PlaceholderNames ==
    {<<"R", "e", "c", "i", "p", "e", " ", "2">>,
     <<"r", "e", "c", "i", "p", "e", " ", "1", "0">>,
     <<"R", "E", "C", "I", "P", "E", " ", " ", "7">>}
StoredNames ==
    {<<"D", "a", "l">>, <<"D", "a", "l", " ", "F", "r", "y">>,
     <<"R", "e", "c", "i", "p", "e", " ", "2">>}
PlainNames ==
    StoredNames \cup
    {<<"d", "a", "l", " ", "f">>, <<"R", "e", "c", "i", "p", "e">>,
     <<"R", "e", "c", "i", "p", "e", " ", "2", "b">>,
     <<"R", "e", "c", "i", "p", "e", "s", " ", "2">>, <<"P", "a", "v">>,
     <<"a", "l", " ", "F", "r", "y">>}

\* ---------------------------------------------------------------------------
\* The name reconciler at the end of OptimizedRecipeRecommender.recommend_recipes
\* ---------------------------------------------------------------------------
\* extracted_recipes[:3]
TopN == 3
\* get_close_matches(..., cutoff=0.6)
CutoffNum == 6
CutoffDen == 10

\* Code-point order of the characters the model's strings use.
AsciiOrder ==
    <<" ", "-", ".", "0", "1", "2", "3", "4", "5", "6", "7", "8", "9", ":",
      "C", "D", "E", "F", "I", "K", "P", "R", "T",
      "a", "b", "c", "d", "e", "f", "i", "k", "l", "o", "p", "r", "s", "v", "y">>
Code(c) == CHOOSE i \in 1..Len(AsciiOrder) : AsciiOrder[i] = c

\* Python's a < b on str
StrLess(a, b) ==
    \/ Len(a) < Len(b) /\ SubSeq(b, 1, Len(a)) = a
    \/ \E i \in 1..Min(Len(a), Len(b)) :
          /\ SubSeq(a, 1, i - 1) = SubSeq(b, 1, i - 1)
          /\ Code(a[i]) < Code(b[i])

\* difflib.SequenceMatcher.find_longest_match over all of a and b (no junk:
\* autojunk only applies from 200 characters on): <<i, j, k>> with a[i..i+k-1]
\* = b[j..j+k-1], k largest, then i smallest, then j smallest; k = 0 when no
\* character is shared.
FindLongestMatch(a, b) ==
    LET blocks == {m \in (1..Len(a)) \X (1..Len(b)) \X (1..Min(Len(a), Len(b))) :
                      /\ m[1] + m[3] - 1 <= Len(a)
                      /\ m[2] + m[3] - 1 <= Len(b)
                      /\ SubSeq(a, m[1], m[1] + m[3] - 1) = SubSeq(b, m[2], m[2] + m[3] - 1)}
        Better(m, n) == \/ m[3] > n[3]
                        \/ m[3] = n[3] /\ m[1] < n[1]
                        \/ m[3] = n[3] /\ m[1] = n[1] /\ m[2] < n[2]
    IN IF blocks = {} THEN <<1, 1, 0>>
       ELSE CHOOSE m \in blocks : \A n \in blocks \ {m} : Better(m, n)

\* Sum of the sizes of SequenceMatcher.get_matching_blocks(): the longest
\* block, then the same to its left and to its right.
RECURSIVE MatchCount(_, _)
MatchCount(a, b) ==
    LET m == FindLongestMatch(a, b)
    IN IF m[3] = 0 THEN 0
       ELSE m[3]
            + MatchCount(SubSeq(a, 1, m[1] - 1), SubSeq(b, 1, m[2] - 1))
            + MatchCount(DropFirst(a, m[1] + m[3] - 1), DropFirst(b, m[2] + m[3] - 1))

\* SequenceMatcher.ratio() = 2.0 * matches / length as the fraction <<num, den>>
Ratio(a, b) ==
    IF Len(a) + Len(b) = 0 THEN <<1, 1>> ELSE <<2 * MatchCount(a, b), Len(a) + Len(b)>>
RatioLess(r, q) == r[1] * q[2] < q[1] * r[2]

\* difflib.get_close_matches(word, possibilities, n=1, cutoff=0.6): the
\* possibilities scoring at least the cutoff, the best by (score, string);
\* seq1 is the possibility and seq2 the word.  <<>> or a one-element list.
get_close_matches(word, possibilities) ==
    LET Score(x) == Ratio(x, word)
        close == {x \in {possibilities[i] : i \in 1..Len(possibilities)} :
                     Score(x)[1] * CutoffDen >= CutoffNum * Score(x)[2]}
        Beats(x, y) == \/ RatioLess(Score(y), Score(x))
                       \/ ~RatioLess(Score(x), Score(y)) /\ StrLess(y, x)
    IN IF close = {} THEN <<>>
       ELSE <<CHOOSE x \in close : \A y \in close \ {x} : Beats(x, y)>>

\* re.match(r'^\d+\.\s+([^-\n]+)', line): <<match.group(1).strip()>>, or <<>>
\* when the line does not match.  The group stops at the first "-"; when only
\* whitespace stands before it, \s+ gives one character back to the group.
ExtractedName(line) ==
    LET d == Span(line, 1, Digits)
        w == Span(line, d + 2, Whitespace)
        rest == DropFirst(line, d + 1 + w)
        dash == FirstDash(rest)
        group == IF dash = 0 THEN rest ELSE SubSeq(rest, 1, dash - 1)
    IN IF d >= 1 /\ d < Len(line) /\ line[d + 1] = "." /\ w >= 1
         THEN IF group # <<>> THEN <<Strip(group)>>
              ELSE IF w >= 2 THEN <<<<>>>> ELSE <<>>
         ELSE <<>>

\* extracted_recipes: the names of the lines that match, in order
RECURSIVE ExtractAll(_)
ExtractAll(response_lines) ==
    IF response_lines = <<>> THEN <<>>
    ELSE ExtractedName(Head(response_lines)) \o ExtractAll(Tail(response_lines))

\* re.sub(rf'^(\d+\.)\s+{re.escape(llm_recipe)}', rf'\1 {db_recipe}', ...,
\* flags=re.MULTILINE) on one line of the response
SubLine(line, llm_recipe, db_recipe) ==
    LET d == Span(line, 1, Digits)
        w == Span(line, d + 2, Whitespace)
        rest == DropFirst(line, d + 1 + w)
    IN IF /\ d >= 1 /\ d < Len(line) /\ line[d + 1] = "." /\ w >= 1
          /\ llm_recipe # <<>> /\ IsPrefixOf(llm_recipe, rest)
         THEN SubSeq(line, 1, d + 1) \o <<" ">> \o db_recipe \o DropFirst(rest, Len(llm_recipe))
         ELSE line

\* The same re.sub over the whole text, given as its lines.  \s+ also matches
\* line breaks: a line that is only "<digits>." plus whitespace, followed by
\* blank lines and then a line that starts with llm_recipe, is one match, and
\* the substitution joins these lines into one.
AllSpace(line) == Span(line, 1, Whitespace) = Len(line)
RECURSIVE SubText(_, _, _)
SubText(lines, llm_recipe, db_recipe) ==
    IF lines = <<>> THEN <<>>
    ELSE
        LET line == Head(lines)
            d == Span(line, 1, Digits)
            w == Span(line, d + 2, Whitespace)
            blank_tail == /\ d >= 1 /\ d < Len(line) /\ line[d + 1] = "."
                          /\ d + 1 + w = Len(line)
            later == {q \in 2..Len(lines) : ~AllSpace(lines[q])}
            q == CHOOSE x \in later : \A y \in later : x <= y
            lead == Span(lines[q], 1, Whitespace)
        IN IF /\ blank_tail /\ later # {} /\ llm_recipe # <<>>
              /\ IsPrefixOf(llm_recipe, DropFirst(lines[q], lead))
             THEN <<SubSeq(line, 1, d + 1) \o <<" ">> \o db_recipe
                      \o DropFirst(lines[q], lead + Len(llm_recipe))>>
                  \o SubText(SubSeq(lines, q + 1, Len(lines)), llm_recipe, db_recipe)
             ELSE <<SubLine(line, llm_recipe, db_recipe)>>
                  \o SubText(Tail(lines), llm_recipe, db_recipe)

\* recommend_recipes: the loop over extracted_recipes[:3], from position i on
RECURSIVE ReconcileFrom(_, _, _, _, _)
ReconcileFrom(i, extracted, recipe_names, corrected_response, recipe_mapping) ==
    IF i > Min(TopN, Len(extracted)) THEN
        [response |-> corrected_response, recipe_mapping |-> recipe_mapping]
    ELSE
        LET llm_recipe == extracted[i]
            matches == get_close_matches(llm_recipe, recipe_names)
        IN IF matches # <<>>
             THEN ReconcileFrom(i + 1, extracted, recipe_names,
                      SubText(corrected_response, llm_recipe, matches[1]),
                      Append(recipe_mapping, matches[1]))
             ELSE ReconcileFrom(i + 1, extracted, recipe_names, corrected_response,
                      Append(recipe_mapping,
                             IF i - 1 < Len(recipe_names) THEN recipe_names[i] ELSE llm_recipe))

\* recommend_recipes, from the LLM's ranked_response on: response = the lines
\* of corrected_response, recipe_mapping[i] = the value stored under "Recipe i"
Reconcile(ranked_response, recipe_names) ==
    ReconcileFrom(1, ExtractAll(ranked_response), recipe_names, ranked_response, <<>>)

\* ---- the reconciler's inputs
\* Names of candidate rows, and what the LLM writes in their place.
CandidateNames ==
    {<<"D", "a", "l">>, <<"D", "a", "l", "-", "F", "r", "y">>, <<"D", "o", "s", "a">>}
LlmNames ==
    CandidateNames \cup {<<"D", "a", "l", " ", "F", "r", "y">>, <<"P", "a", "v">>}
\* A line of the response: a name the LLM ranks, <<>> for a line of prose,
\* Bare for a number that stands alone on its line, Cont for a line that
\* starts with a name and has no number.
Prose == <<>>
Bare == <<".">>
Cont == <<"-">>
LineSpecs == LlmNames \cup {Prose, Bare, Cont}
DigitOf(n) == AsciiOrder[4 + n]
\* "<p>. <name> - ok", the prose line "Top:", "<p>.", or "Dal - ok"
LineText(line_spec, p) ==
    IF line_spec = Prose THEN <<"T", "o", "p", ":">>
    ELSE IF line_spec = Bare THEN <<DigitOf(p), ".">>
    ELSE IF line_spec = Cont THEN <<"D", "a", "l", " ", "-", " ", "o", "k">>
    ELSE <<DigitOf(p), ".", " ">> \o line_spec \o <<" ", "-", " ", "o", "k">>
ResponseText(line_specs) == [p \in 1..Len(line_specs) |-> LineText(line_specs[p], p)]

SeqsUpTo(S, n) == UNION {[1..k -> S] : k \in 1..n}
Injective(f) == \A i, j \in DOMAIN f : f[i] = f[j] => i = j

\* ---------------------------------------------------------------------------
\* Part 4.  data/final_db_helpers.py: the delimiter format of the steps and
\* step_image_urls columns
\* ---------------------------------------------------------------------------
STEP_DELIMITER ==
    <<"<", "S", "T", "E", "P", "_", "D", "E", "L", "I", "M", "I", "T", "E", "R", ">">>

\* str.join
RECURSIVE Join(_, _)
Join(sep, items) ==
    IF items = <<>> THEN <<>>
    ELSE IF Len(items) = 1 THEN items[1]
    ELSE items[1] \o sep \o Join(sep, Tail(items))

\* str.split(sep): cut at the leftmost occurrence of sep, then split the rest
RECURSIVE Split(_, _)
Split(s, sep) ==
    LET at == {i \in 1..(Len(s) - Len(sep) + 1) : SubSeq(s, i, i + Len(sep) - 1) = sep}
        i == CHOOSE x \in at : \A y \in at : x <= y
    IN IF at = {} THEN <<s>>
       ELSE <<SubSeq(s, 1, i - 1)>> \o Split(DropFirst(s, i + Len(sep) - 1), sep)

serialize_steps(steps) == Join(STEP_DELIMITER, steps)
serialize_step_images(step_image_urls) == Join(STEP_DELIMITER, step_image_urls)
deserialize_steps(steps_str) ==
    IF steps_str = <<>> THEN <<>> ELSE Split(steps_str, STEP_DELIMITER)
deserialize_step_images(step_image_urls_str) ==
    IF step_image_urls_str = <<>> THEN <<>> ELSE Split(step_image_urls_str, STEP_DELIMITER)

\* ---- the inputs: entries of at most MaxEntryLen characters (so none holds
\* the delimiter), lists of at most MaxList entries
MaxEntryLen == 1
MaxList == 3
EntryChars == {"a", "<", ">"}
Entries == UNION {[1..k -> EntryChars] : k \in 0..MaxEntryLen}
EntryLists == UNION {[1..k -> Entries] : k \in 0..MaxList}

\* ---------------------------------------------------------------------------
\* Part 5.  core/top_recipes_service.py and api/top_recipes.py: the
\* top_recipes table.  A row is its steps and step_image_urls columns; the
\* other columns are written the same way and are not read by anything here.
\* ---------------------------------------------------------------------------
MaxRecipes == 2
MaxTopSteps == 2
StepTexts == {"mix"}
ImageUrls == {"", "url"}
StepLists == UNION {[1..k -> StepTexts] : k \in 0..MaxTopSteps}
UrlLists == UNION {[1..k -> ImageUrls] : k \in 0..MaxTopSteps}

\* insert_recipe: while len(step_image_urls) < len(steps): append('');
\* then step_image_urls[:len(steps)]
PadTruncate(steps, step_image_urls) ==
    [i \in 1..Len(steps) |-> IF i <= Len(step_image_urls) THEN step_image_urls[i] ELSE ""]

\* An Optional[List[str]] argument: <<>> for None, <<list>> for a list
Optional(lists) == {<<>>} \cup {<<l>> : l \in lists}

\* update_recipe: "<column> = %s" for every argument that is not None
update_columns(row, steps, step_image_urls) ==
    [steps |-> IF steps # <<>> THEN steps[1] ELSE row.steps,
     step_image_urls |-> IF step_image_urls # <<>> THEN step_image_urls[1]
                         ELSE row.step_image_urls]

\* insert_recipe (RETURNING id: the table's serial key)
insert_recipe(steps, step_image_urls) ==
    top_recipes' = Put(top_recipes, Len(top_recipes) + 1,
                       [steps |-> steps,
                        step_image_urls |-> PadTruncate(steps, step_image_urls)])

\* update_recipe: FALSE when no column is given or no row has the id
update_recipe_succeeds(recipe_id, steps, step_image_urls, other_columns) ==
    /\ steps # <<>> \/ step_image_urls # <<>> \/ other_columns
    /\ recipe_id \in DOMAIN top_recipes

update_recipe(recipe_id, steps, step_image_urls, other_columns) ==
    IF update_recipe_succeeds(recipe_id, steps, step_image_urls, other_columns)
      THEN top_recipes' = [top_recipes EXCEPT ![recipe_id] =
                              update_columns(@, steps, step_image_urls)]
      ELSE UNCHANGED top_recipes

\* POST /api/top-recipes/
create_recipe(steps, step_image_urls) ==
    /\ insert_recipe(steps, step_image_urls)
    /\ resp' = Response("create_recipe", NoSid, 200, FALSE)

\* PUT /api/top-recipes/{recipe_id}
update_full_recipe(recipe_id, steps, step_image_urls, other_columns) ==
    /\ update_recipe(recipe_id, steps, step_image_urls, other_columns)
    /\ resp' = Response("update_full_recipe", NoSid,
                        IF update_recipe_succeeds(recipe_id, steps, step_image_urls, other_columns)
                          THEN 200 ELSE 404, FALSE)

\* PATCH /api/top-recipes/{recipe_id}/fields
update_recipe_fields(recipe_id, steps, step_image_urls, other_columns) ==
    /\ update_recipe(recipe_id, steps, step_image_urls, other_columns)
    /\ resp' = Response("update_recipe_fields", NoSid,
                        IF update_recipe_succeeds(recipe_id, steps, step_image_urls, other_columns)
                          THEN 200 ELSE 404, FALSE)

\* ---------------------------------------------------------------------------
\* Part 6.  database/db_helpers.py: RecipeDatabase.find_recipes, and the call
\* of it in OptimizedRecipeRecommender.recommend_recipes
\* ---------------------------------------------------------------------------
\* `sub in s` on str
Contains(s, sub) ==
    \E i \in 1..(Len(s) - Len(sub) + 1) : SubSeq(s, i, i + Len(sub) - 1) = sub

\* OptimizedRecipeRecommender._parse_time
_parse_time(time_str) ==
    LET s == LowerStr(time_str)
    IN IF Contains(s, <<"1", "5", "-", "3", "0">>) \/ Contains(s, <<"3", "0">>) THEN 30
       ELSE IF Contains(s, <<"3", "0", "-", "4", "5">>) \/ Contains(s, <<"4", "5">>) THEN 45
       ELSE IF Contains(s, <<"4", "5", "-", "6", "0">>) \/ Contains(s, <<"1", " ", "h", "o", "u", "r">>) THEN 60
       ELSE IF Contains(s, <<"1", "+">>) \/ Contains(s, <<"2", " ", "h", "o", "u", "r">>) THEN 120
       ELSE 60

\* A row of the recipes table (the columns the query reads)
Row(name, cuisine_type, meal_type, total_time_minutes, taste_profile, allergens, popularity_score) ==
    [name |-> name, cuisine_type |-> cuisine_type, meal_type |-> meal_type,
     total_time_minutes |-> total_time_minutes, taste_profile |-> taste_profile,
     allergens |-> allergens, popularity_score |-> popularity_score]

\* find_recipes mutant: the allergen condition is left out of the WHERE clause
WhereClause_no_allergens(row, cuisine, meal_type, max_time_minutes, exclude_allergens) ==
    /\ row.cuisine_type = cuisine
    /\ meal_type \in row.meal_type
    /\ row.total_time_minutes <= max_time_minutes

\* WHERE cuisine_type = %s AND %s = ANY(meal_type) AND total_time_minutes <= %s
\*   AND NOT (allergens && %s)
WhereClause(row, cuisine, meal_type, max_time_minutes, exclude_allergens) ==
    /\ row.cuisine_type = cuisine
    /\ meal_type \in row.meal_type
    /\ row.total_time_minutes <= max_time_minutes
    /\ row.allergens \cap exclude_allergens = {}

\* popularity_score / 100 in units of 1/100: the quotient is exact when the
\* column is a float or numeric one and truncated when it is an integer one
PopularityTerm(popularity_score, integer_column) ==
    IF integer_column THEN (popularity_score \div 100) * 100 ELSE popularity_score

\* find_recipes mutant: popularity is subtracted from the score
match_score_minus_popularity(row, cuisine, meal_type, max_time_minutes, taste_preferences, integer_column) ==
    <<500 * Len(taste_preferences) + 500 - row.popularity_score, 100>>

\* The match_score column as the fraction <<numerator, denominator>>:
\* 2 [cuisine] + 2 [meal type] + 1 [time] + COUNT(taste_profile entries that
\* are requested) / GREATEST(array_length(requested), 1) + popularity / 100
match_score(row, cuisine, meal_type, max_time_minutes, taste_preferences, integer_column) ==
    LET count == Cardinality({i \in 1..Len(row.taste_profile) :
                     \E j \in 1..Len(taste_preferences) :
                         taste_preferences[j] = row.taste_profile[i]})
        floor == IF Len(taste_preferences) >= 1 THEN Len(taste_preferences) ELSE 1
        fixed == (IF row.cuisine_type = cuisine THEN 2 ELSE 0)
                 + (IF meal_type \in row.meal_type THEN 2 ELSE 0)
                 + (IF row.total_time_minutes <= max_time_minutes THEN 1 ELSE 0)
    IN <<fixed * 100 * floor + count * 100
           + PopularityTerm(row.popularity_score, integer_column) * floor,
         100 * floor>>

\* ORDER BY match_score DESC, popularity_score DESC: a comes strictly first
OrderedBefore(a, b) ==
    \/ RatioLess(b.match_score, a.match_score)
    \/ /\ ~RatioLess(a.match_score, b.match_score)
       /\ a.popularity_score > b.popularity_score

\* The orders ORDER BY match_score DESC, popularity_score DESC allows for
\* the selected rows: at each place, any row that no remaining row precedes.
RECURSIVE OrderBy(_)
OrderBy(selected) ==
    IF selected = {} THEN {<<>>}
    ELSE UNION {{<<m>> \o s : s \in OrderBy(selected \ {m})} :
                   m \in {x \in selected : \A y \in selected : ~OrderedBefore(y, x)}}

\* The lists find_recipes can return: the rows that pass the WHERE clause,
\* each with its match_score, in any order the ORDER BY allows, cut at LIMIT.
find_recipes(recipes, cuisine, meal_type, max_time_minutes, exclude_allergens, taste_preferences, limit, integer_column) ==
    LET selected == {[row |-> r,
                      popularity_score |-> r.popularity_score,
                      match_score |-> match_score(r, cuisine, meal_type, max_time_minutes,
                                                  taste_preferences, integer_column)] :
                        r \in {x \in recipes : WhereClause(x, cuisine, meal_type,
                                                 max_time_minutes, exclude_allergens)}}
    IN {SubSeq(s, 1, Min(limit, Len(s))) : s \in OrderBy(selected)}

\* ---- the inputs: the table and the request
MaxRows == 3
Spicy == "Spicy"
Sweet == "Sweet"
RowPool ==
    {Row("A", "Indian", {"lunch"}, 25, <<Spicy>>, {}, 50),
     Row("B", "Indian", {"dinner"}, 20, <<Sweet>>, {}, 90),
     Row("C", "Indian", {"lunch", "dinner"}, 30, <<Spicy, Sweet>>, {"nuts"}, 50),
     Row("D", "Indian", {"lunch"}, 45, <<Sweet>>, {}, 50),
     Row("E", "Thai", {"lunch"}, 25, <<Spicy>>, {}, 250),
     Row("F", "Indian", {"lunch"}, 25, <<Spicy>>, {}, 50),
     Row("A", "Indian", {"lunch"}, 25, <<Spicy>>, {}, 150)}
Tables == {T \in SUBSET RowPool : Cardinality(T) <= MaxRows}
Regions == {"Indian", "Thai"}
MealTypes == {"lunch", "dinner"}
TimeStrings == {<<"3", "0", " ", "m", "i", "n", "s">>, <<"4", "5", " ", "m", "i", "n", "s">>, <<"1", " ", "h", "o", "u", "r">>}
AllergyLists == {{}, {"nuts"}}
TastePreferences == {<<>>, <<Spicy>>, <<Spicy, Sweet>>}
\* limit: 20 as recommend_recipes passes it, 1 for a list that LIMIT cuts
Limits == {1, 20}

\* ---------------------------------------------------------------------------
\* Part 7.  Image generation: core/image_generator.py, and generate_image /
\* gemini_image_generator of the two recommenders.  env is what the call
\* meets: llm_ok (the prompt chain answers), api_key (GOOGLE_API_KEY is set),
\* sd_ready (IMAGE_GENERATION_ENABLED and a pipeline), cached (a recipe_images
\* row), remote and local (what the API call / the pipeline do).  A result is
\* the calls made in order (log), the returned pair (image, text) and the
\* exception that left the function (raised).
\* ---------------------------------------------------------------------------
NoLog == <<>>
Returned(log, image, text) == [log |-> log, image |-> image, text |-> text, raised |-> "none"]
Raised(log, exception) == [log |-> log, image |-> None, text |-> None, raised |-> exception]

\* ImageGenerator._generate_with_gemini
_generate_with_gemini(env, log) ==
    IF ~env.api_key THEN Raised(log, "not_configured")
    ELSE IF env.remote = "raises" THEN Raised(Append(log, "gemini"), "generation_failed")
    ELSE Returned(Append(log, "gemini"),
                  IF env.remote = "image" THEN "image" ELSE None, "prompt")

\* stable-diffusion mutant: the prompt is dropped when the pipeline raises
_generate_with_stable_diffusion_drops_prompt(env, log) ==
    IF ~env.sd_ready THEN Returned(log, None, "prompt")
    ELSE IF env.local = "raises" THEN Returned(Append(log, "stable_diffusion"), None, None)
    ELSE Returned(Append(log, "stable_diffusion"), "image", "prompt")

\* ImageGenerator._generate_with_stable_diffusion, and the same code inlined
\* in the two recommenders' generate_image
_generate_with_stable_diffusion(env, log) ==
    IF ~env.sd_ready THEN Returned(log, None, "prompt")
    ELSE IF env.local = "raises" THEN Returned(Append(log, "stable_diffusion"), None, "prompt")
    ELSE Returned(Append(log, "stable_diffusion"), "image", "prompt")

\* ImageGenerator.generate_image
ImageGenerator_generate_image(env, backend) ==
    IF ~env.llm_ok THEN Raised(NoLog, "llm_error")
    ELSE IF backend = "gemini" THEN _generate_with_gemini(env, <<"prompt">>)
    ELSE IF backend = "stable_diffusion" THEN _generate_with_stable_diffusion(env, <<"prompt">>)
    ELSE Raised(<<"prompt">>, "unknown_backend")

\* OptimizedRecipeRecommender.gemini_image_generator
gemini_image_generator(env) ==
    IF ~env.llm_ok THEN Raised(NoLog, "llm_error")
    ELSE IF ~env.api_key THEN Raised(<<"prompt">>, "not_configured")
    ELSE IF env.remote = "raises" THEN Raised(<<"prompt", "gemini">>, "generation_failed")
    ELSE Returned(<<"prompt", "gemini">>,
                  IF env.remote = "image" THEN "image" ELSE None, "prompt")

\* OptimizedRecipeRecommender.generate_image
OptimizedRecipeRecommender_generate_image(env) ==
    IF env.cached THEN Returned(<<"get_recipe_image">>, None, "cached_url")
    ELSE IF ~env.llm_ok THEN Raised(<<"get_recipe_image">>, "llm_error")
    ELSE _generate_with_stable_diffusion(env, <<"get_recipe_image", "prompt">>)

\* RecipeRecommender.generate_image
RecipeRecommender_generate_image(env) ==
    IF ~env.llm_ok THEN Raised(NoLog, "llm_error")
    ELSE _generate_with_stable_diffusion(env, <<"prompt">>)

Backends == {"gemini", "stable_diffusion"}
BackendArguments == Backends \cup {"dalle"}
ImageEnvs ==
    [llm_ok : BOOLEAN, api_key : BOOLEAN, sd_ready : BOOLEAN, cached : BOOLEAN,
     remote : {"image", "empty", "raises"}, local : {"image", "raises"}]

\* ---------------------------------------------------------------------------
\* Part 8.  generate_top_recipies/generate_top_recipies.py: the retry of
\* generate_recipes_batch
\* ---------------------------------------------------------------------------
MAX_RETRIES == 5
INITIAL_RETRY_DELAY == 5

Pow2(n) == IF n = 0 THEN 1 ELSE IF n = 1 THEN 2 ELSE IF n = 2 THEN 4
           ELSE IF n = 3 THEN 8 ELSE IF n = 4 THEN 16 ELSE 32

\* retry mutant: one retry more
CanRetry_one_more(retry_count) == retry_count <= MAX_RETRIES

\* if retry_count < MAX_RETRIES
CanRetry(retry_count) == retry_count < MAX_RETRIES

\* One activation of generate_recipes_batch at call.retry_count: model.invoke
\* is called once.  outcome = "recipes": a list of recipes is returned;
\* "rate_limit": an exception whose text holds 429, quota or rate;
\* "error": any other exception, an empty response or no valid recipe.
\* On an exception the function sleeps and calls itself with retry_count + 1
\* while CanRetry, and returns None otherwise.
generate_recipes_batch(outcome) ==
    IF outcome = "recipes"
      THEN call' = [call EXCEPT !.done = TRUE, !.invocations = @ + 1,
                                !.result = "recipes"]
      ELSE IF CanRetry(call.retry_count)
        THEN call' = [call EXCEPT
                 !.invocations = @ + 1,
                 !.errors = Append(@, outcome),
                 !.slept = @ + (IF outcome = "rate_limit"
                                  THEN INITIAL_RETRY_DELAY * Pow2(call.retry_count)
                                  ELSE INITIAL_RETRY_DELAY),
                 !.retry_count = @ + 1]
        ELSE call' = [call EXCEPT !.done = TRUE, !.invocations = @ + 1,
                                  !.errors = Append(@, outcome), !.result = None]

\* ---------------------------------------------------------------------------
\* Part 9.  OptimizedRecipeRecommender.recommend_recipes as a sequence of
\* calls, and the answer submit_preferences builds from its result.  env is
\* what the call meets: candidates (how many rows find_recipes returns),
\* embeddings_model (whether one is configured), llm_ok (the ranking chain
\* answers), db_ok (the query does not raise).
\* ---------------------------------------------------------------------------
\* len(candidates) > 10
SemanticThreshold == 10
NoRecipesMessage == "Sorry, no recipes found matching your preferences."

\* recommend_recipes mutant: an empty candidate list is ranked like any other
NoCandidates_ignored(candidates) == FALSE

\* if not candidates
NoCandidates(candidates) == candidates = 0

\* recommend_recipes: the calls made in order and what comes back: the
\* message (a str), the reconciled ranking (a dict), or an exception
recommend_recipes(env) ==
    LET found == <<"find_recipes">>
        refined == IF env.embeddings_model /\ env.candidates > SemanticThreshold
                     THEN found \o <<"embed_query", "semantic_search">> ELSE found
        max_time_minutes == _parse_time(env.time_available)
    IN IF ~env.db_ok
         THEN [log |-> found, max_time_minutes |-> max_time_minutes,
               kind |-> "raise", response |-> None]
       ELSE IF NoCandidates(env.candidates)
         THEN [log |-> found, max_time_minutes |-> max_time_minutes,
               kind |-> "str", response |-> NoRecipesMessage]
       ELSE IF ~env.llm_ok
         THEN [log |-> Append(refined, "llm"), max_time_minutes |-> max_time_minutes,
               kind |-> "raise", response |-> None]
       ELSE [log |-> Append(refined, "llm"), max_time_minutes |-> max_time_minutes,
             kind |-> "dict", response |-> "ranked"]

\* submit_preferences: the RecipeRecommendationResponse, or the 500 of the
\* except clause
RecommendationResponse(session_id, recommendations_result) ==
    IF recommendations_result.kind = "raise"
      THEN [status |-> 500, success |-> FALSE, recommendations |-> None, session_id |-> NoSid]
      ELSE [status |-> 200, success |-> TRUE,
            recommendations |-> recommendations_result.response, session_id |-> session_id]

CandidateCounts == {0, 1, SemanticThreshold + 1}
RecommendEnvs ==
    [candidates : CandidateCounts, embeddings_model : BOOLEAN, llm_ok : BOOLEAN,
     db_ok : BOOLEAN, time_available : TimeStrings]

\* ---------------------------------------------------------------------------
\* Part 10.  api/users.py: the /api/user endpoints over the users table.  The
\* handlers call user_model (imported from model.User_model); its methods
\* are modelled on UserDatabaseService of database/user_db.py, which carries
\* the same method names and swallows the database's exceptions.
\* ---------------------------------------------------------------------------
Emails == {"a@example.com", "b@example.com"}
PreferenceValues == {"vegetarian", "spicy"}

\* UserDatabaseService.get_user_by_email: <<row>>, or <<>> for None (no such
\* row, or the query raised and the exception was swallowed)
get_user_by_email(email, db_ok) ==
    IF db_ok /\ email \in DOMAIN users THEN <<users[email]>> ELSE <<>>

\* POST /api/user/signin: create_or_update_user inserts the row or updates
\* its name, image and google_id (the preferences column is left alone).  When
\* the database raises, the result dict has no "message" and the response
\* model rejects it.
user_signin(email, db_ok) ==
    IF ~db_ok
      THEN /\ resp' = Response("signin", email, 500, FALSE)
           /\ UNCHANGED users
      ELSE /\ users' = IF email \in DOMAIN users THEN users
                        ELSE Put(users, email, [preferences |-> None])
           /\ resp' = Response("signin", email, 200, FALSE)

\* GET /api/user/{email}.  The HTTPException(404) is raised inside the try
\* block, and the only handler is `except Exception`, which HTTPException
\* is a subclass of: it is turned into HTTPException(500).
get_user(email, db_ok) ==
    /\ resp' = Response("get_user", email,
                        IF get_user_by_email(email, db_ok) # <<>> THEN 200 ELSE 500, FALSE)
    /\ UNCHANGED users

\* PUT /api/user/{email}/preferences: UPDATE ... WHERE email = ..., which
\* touches no row when there is none; the result dict is returned as it is
\* (success false when the database raised), with status 200.
update_user_preferences(email, preferences, db_ok) ==
    /\ users' = IF db_ok /\ email \in DOMAIN users
                  THEN [users EXCEPT ![email].preferences = preferences]
                  ELSE users
    /\ resp' = Response("update_preferences", email, 200, FALSE)

\* GET /api/user/{email}/preferences: 200 in every case, success telling
\* whether preferences are stored
get_user_preferences_endpoint(email) ==
    /\ resp' = Response("get_preferences", email, 200, FALSE)
    /\ UNCHANGED users

\* ---------------------------------------------------------------------------
\* Part 11.  The candidates of OptimizedRecipeRecommender.recommend_recipes:
\* find_recipes, the semantic refiner, and the cut to the rows the LLM ranks.
\* A row's embedding is <<its distance to the query embedding>>, << >> when
\* the column is NULL.
\* ---------------------------------------------------------------------------
\* find_recipes(..., limit=20)
FindLimit == 20
\* semantic_search(query_embedding, limit=10) and semantic_results[:10]
SemanticLimit == 10
\* [c for c in candidates if c not in semantic_results][:10]
MergeLimit == 10
\* candidates[:10]
RankLimit == 10

WithEmbedding(row, embedding) ==
    [f \in DOMAIN row \cup {"embedding"} |-> IF f = "embedding" THEN embedding ELSE row[f]]

\* ORDER BY embedding <=> query: the orders of the rows by distance
RECURSIVE OrderByDistance(_)
OrderByDistance(rows) ==
    IF rows = {} THEN {<<>>}
    ELSE UNION {{<<m>> \o s : s \in OrderByDistance(rows \ {m})} :
                   m \in {x \in rows : \A y \in rows : y.embedding[1] >= x.embedding[1]}}

\* RecipeDatabase.semantic_search: the lists it can return.  The only
\* condition of the query is embedding IS NOT NULL; a result row carries the
\* similarity column and no match_score.
semantic_search(recipes, limit) ==
    LET embedded == {r \in recipes : r.embedding # << >>}
    IN {[i \in 1..Min(limit, Len(s)) |-> [row |-> s[i], similarity |-> 1 - s[i].embedding[1]]] :
           s \in OrderByDistance(embedded)}

\* [c for c in candidates if c not in semantic_results]: dict equality of a
\* find_recipes row with a semantic_search row
RECURSIVE NotIn(_, _)
NotIn(candidates, semantic_results) ==
    IF candidates = <<>> THEN <<>>
    ELSE (IF \E i \in 1..Len(semantic_results) : semantic_results[i] = Head(candidates)
            THEN <<>> ELSE <<Head(candidates)>>)
         \o NotIn(Tail(candidates), semantic_results)

FirstN(list, n) == SubSeq(list, 1, Min(n, Len(list)))

\* recommend_recipes: if self.embeddings_model and len(candidates) > 10
Refines(embeddings_model, candidates) ==
    embeddings_model /\ Len(candidates) > SemanticThreshold

\* recommend_recipes: top_candidates, the rows handed to the LLM ranker
top_candidates(candidates, semantic_results, embeddings_model) ==
    FirstN(IF Refines(embeddings_model, candidates)
             THEN FirstN(semantic_results, SemanticLimit)
                  \o FirstN(NotIn(candidates, semantic_results), MergeLimit)
             ELSE candidates,
           RankLimit)

\* ---- the inputs: n rows that pass every filter of the request below, and
\* rows that each fail one of them
MaxSafe == 12
SafeRow(i) == Row(<<"Safe", i>>, "Indian", {"lunch"}, 25, <<Spicy>>, {}, i)
OtherRows ==
    {Row(<<"Nuts", 0>>, "Indian", {"lunch"}, 25, <<Spicy>>, {"nuts"}, 50),
     Row(<<"Thai", 0>>, "Thai", {"lunch"}, 25, <<Spicy>>, {}, 50),
     Row(<<"Slow", 0>>, "Indian", {"lunch"}, 90, <<Spicy>>, {}, 50),
     Row(<<"Dinner", 0>>, "Indian", {"dinner"}, 25, <<Spicy>>, {}, 50)}
\* The table: the rows that fail a filter are nearest to the query when
\* others_nearest, and the rows that pass have an embedding when safe_embedded.
PipelineTable(n, others, others_nearest, safe_embedded) ==
    {WithEmbedding(SafeRow(i), IF safe_embedded THEN <<100 + i>> ELSE << >>) : i \in 1..n}
    \cup {WithEmbedding(r, <<(IF others_nearest THEN 0 ELSE 200) + r.total_time_minutes
                                + Cardinality(r.allergens)
                                + (IF r.cuisine_type = "Thai" THEN 2 ELSE 0)
                                + (IF "dinner" \in r.meal_type THEN 3 ELSE 0)>>) : r \in others}
SafeCounts == {1, SemanticThreshold, SemanticThreshold + 1, MaxSafe}

\* ---------------------------------------------------------------------------
\* Part 12.  generate_top_recipies/generate_top_recipies.py: insert_recipe of
\* the bulk generator, on one sqlite3 connection.  db is the committed rows;
\* a transaction is txn = [committed, pending, failed]: sqlite3 opens it at
\* the first INSERT, conn.commit() makes the pending rows committed and
\* conn.rollback() drops them.  A row is its table, the recipe it belongs to
\* (0 for the ingredients table) and what tells it from the other rows of the
\* recipe.  Names are compared as they are (the model's names are lower-case
\* wherever the code compares LOWER(name)).
\* ---------------------------------------------------------------------------
MaxBulkRecipes == 2
KnownRegions == {"Indian"}
KnownTastes == {"Spicy"}
KnownMealTypes == {"lunch"}
KnownDietaryTags == {"vegan"}
\* An ingredient dict without the 'name' key, and an instruction that is not
\* a string (a JSON object, which sqlite3 cannot bind).
NoName == "<no 'name' key>"
Unsupported == "<unsupported type>"

BulkRow(table, recipe_id, key) == [table |-> table, recipe_id |-> recipe_id, key |-> key]
TableRows(rows, table) == {r \in rows : r.table = table}

\* recipe_exists: a recipes row of that name joined to the region
recipe_exists(rows, recipe_name, region_name) ==
    \E r \in TableRows(rows, "recipes") :
        /\ r.key = recipe_name
        /\ BulkRow("recipe_regions", r.recipe_id, region_name) \in rows

\* cursor.lastrowid of the INSERT INTO recipes: the largest rowid plus one
NextRecipeId(rows) ==
    LET ids == {r.recipe_id : r \in TableRows(rows, "recipes")}
    IN IF ids = {} THEN 1 ELSE 1 + CHOOSE m \in ids : \A n \in ids : n <= m

\* The loops over tastes, meal_types and dietary_tags: a row per name that
\* the lookup table knows
LinkRows(table, recipe_id, names, known) ==
    {BulkRow(table, recipe_id, names[i]) : i \in {j \in 1..Len(names) : names[j] \in known}}

\* get_or_create_ingredient: a new ingredient is inserted and conn.commit()
\* is called, which commits every pending row of the connection
get_or_create_ingredient(txn, ingredient_name) ==
    IF BulkRow("ingredients", 0, ingredient_name) \in txn.committed \cup txn.pending
      THEN txn
      ELSE [txn EXCEPT
              !.committed = @ \cup txn.pending \cup {BulkRow("ingredients", 0, ingredient_name)},
              !.pending = {}]

\* insert_recipe: for ing_data in recipe_data.get('ingredients', [])
RECURSIVE InsertIngredients(_, _, _)
InsertIngredients(txn, recipe_id, ingredients) ==
    IF ingredients = <<>> THEN txn
    ELSE IF Head(ingredients) = NoName THEN [txn EXCEPT !.failed = TRUE]
    ELSE LET created == get_or_create_ingredient(txn, Head(ingredients))
         IN InsertIngredients(
                [created EXCEPT !.pending = @ \cup
                    {BulkRow("recipe_ingredients", recipe_id, Head(ingredients))}],
                recipe_id, Tail(ingredients))

StepKeys == <<"step 1", "step 2", "step 3">>

\* insert_recipe: for idx, instruction in enumerate(instructions, 1)
RECURSIVE InsertInstructions(_, _, _, _)
InsertInstructions(txn, recipe_id, idx, instructions) ==
    IF txn.failed \/ instructions = <<>> THEN txn
    ELSE IF Head(instructions) = Unsupported THEN [txn EXCEPT !.failed = TRUE]
    ELSE InsertInstructions(
             [txn EXCEPT !.pending = @ \cup
                 {BulkRow("recipe_instructions", recipe_id, StepKeys[idx])}],
             recipe_id, idx + 1, Tail(instructions))

\* insert_recipe: the committed rows it leaves, the id it returns (<<>> for
\* None) and whether the except clause ran
bulk_insert_recipe(committed, recipe_data, region_name) ==
    IF recipe_exists(committed, recipe_data.name, region_name)
      THEN [db |-> committed, result |-> <<>>, error |-> FALSE]
      ELSE
        LET recipe_id == NextRecipeId(committed)
            linked == {BulkRow("recipes", recipe_id, recipe_data.name)}
                \cup LinkRows("recipe_regions", recipe_id, <<region_name>>, KnownRegions)
                \cup LinkRows("recipe_tastes", recipe_id, recipe_data.tastes, KnownTastes)
                \cup LinkRows("recipe_meal_types", recipe_id, recipe_data.meal_types,
                               KnownMealTypes)
                \cup LinkRows("recipe_dietary_tags", recipe_id, recipe_data.dietary_tags,
                               KnownDietaryTags)
            txn == InsertInstructions(
                       InsertIngredients(
                           [committed |-> committed, pending |-> linked, failed |-> FALSE],
                           recipe_id, recipe_data.ingredients),
                       recipe_id, 1, recipe_data.instructions)
        IN IF txn.failed
             THEN [db |-> txn.committed, result |-> <<>>, error |-> TRUE]
             ELSE [db |-> txn.committed \cup txn.pending, result |-> <<recipe_id>>,
                   error |-> FALSE]

\* ---- the inputs: the recipes the LLM's JSON can hold
BulkNames == {"dal", "dosa"}
BulkIngredients ==
    {<<>>, <<"salt">>, <<NoName>>, <<"salt", NoName>>, <<"salt", "rice">>, <<"rice", NoName>>}
BulkInstructions == {<<>>, <<"boil">>, <<"boil", Unsupported>>, <<"boil", "serve">>}
RecipeData ==
    [name : BulkNames, tastes : {<<"Spicy", "Umami">>}, meal_types : {<<"lunch">>},
     dietary_tags : {<<>>, <<"vegan">>}, ingredients : BulkIngredients,
     instructions : BulkInstructions]

\* ------------------------------------------------------- history variables
Succeeded(op) == resp'.op = op /\ resp'.status = 200

IssuedUpdate ==
    issued' = IF Succeeded("submit") THEN issued \cup {resp'.sid} ELSE issued

PendingUpdate(s) ==
    pending' = [pending EXCEPT ![s] =
        [inflight |-> @.inflight - 1,
         appended |-> IF Succeeded("next") /\ ~resp'.completed /\ (@.inflight > 1 \/ @.appended > 0)
                        THEN Min(@.appended + 1, MaxPending) ELSE @.appended]]

WalkUpdate(s) ==
    walk' = [walk EXCEPT ![s] =
        IF resp'.op = "details" /\ (resp'.status = 200 \/ user_sessions' # user_sessions)
          THEN FreshWalk
        ELSE IF Succeeded("next") /\ @.calls >= 0
          THEN [calls |-> Min(@.calls + 1, WalkCap),
                done  |-> Min(@.done + (IF resp'.completed THEN 1 ELSE 0), WalkCap)]
        ELSE IF resp'.op \in {"submit", "skip", "delete"} THEN NoWalk
        ELSE @]

\* ---------------------------------------------------------- specification
\* Spec: requests handled one at a time, every session-scoped endpoint.
SubmitPreferences ==
    \E s \in Ids, ok \in BOOLEAN :
        submit_preferences(s, ok) /\ UNCHANGED <<issued, walk, pending, call, top_recipes, users, db>>
GetRecipeDetails ==
    \E s \in Ids, name \in Names, n \in -1..MaxSteps, ok \in BOOLEAN :
        get_recipe_details(s, name, n, ok) /\ UNCHANGED <<issued, walk, pending, call, top_recipes, users, db>>
NextStep == \E s \in Ids : next_step(s) /\ UNCHANGED <<issued, walk, pending, call, top_recipes, users, db>>
SkipToAlternatives ==
    \E s \in Ids : skip_to_alternatives(s) /\ UNCHANGED <<issued, walk, pending, call, top_recipes, users, db>>
GenerateStepImage ==
    \E s \in Ids, d \in Prompts, ok \in BOOLEAN :
        generate_step_image(s, d, ok) /\ UNCHANGED <<issued, walk, pending, call, top_recipes, users, db>>
GenerateGeminiImage ==
    \E s \in Ids, d \in Prompts, generated \in GeneratedOutcomes :
        generate_gemini_image(s, d, generated) /\ UNCHANGED <<issued, walk, pending, call, top_recipes, users, db>>
GetAlternatives ==
    \E s \in Ids, ok \in BOOLEAN :
        get_alternatives(s, ok) /\ UNCHANGED <<issued, walk, pending, call, top_recipes, users, db>>
GetSessionInfo == \E s \in Ids : get_session_info(s) /\ UNCHANGED <<issued, walk, pending, call, top_recipes, users, db>>
GetSessionStepHistory ==
    \E s \in Ids : get_session_step_history(s) /\ UNCHANGED <<issued, walk, pending, call, top_recipes, users, db>>
DeleteSession == \E s \in Ids : delete_session(s) /\ UNCHANGED <<issued, walk, pending, call, top_recipes, users, db>>

Next ==
    \/ SubmitPreferences
    \/ GetRecipeDetails
    \/ NextStep
    \/ SkipToAlternatives
    \/ GenerateStepImage
    \/ GenerateGeminiImage
    \/ GetAlternatives
    \/ GetSessionInfo
    \/ GetSessionStepHistory
    \/ DeleteSession

Spec == Init /\ [][Next]_vars

\* SpecWalk: the step walker, with the calls of each walk counted.
WalkSubmit ==
    \E s \in Ids : submit_preferences(s, TRUE) /\ WalkUpdate(s) /\ UNCHANGED <<issued, pending, call, top_recipes, users, db>>
WalkDetails ==
    \E s \in Ids, name \in Names, n \in -1..MaxSteps, ok \in BOOLEAN :
        get_recipe_details(s, name, n, ok) /\ WalkUpdate(s) /\ UNCHANGED <<issued, pending, call, top_recipes, users, db>>
WalkNextStep ==
    \E s \in Ids : next_step(s) /\ WalkUpdate(s) /\ UNCHANGED <<issued, pending, call, top_recipes, users, db>>
WalkSkip ==
    \E s \in Ids : skip_to_alternatives(s) /\ WalkUpdate(s) /\ UNCHANGED <<issued, pending, call, top_recipes, users, db>>

NextWalk == WalkSubmit \/ WalkDetails \/ WalkNextStep \/ WalkSkip

SpecWalk == Init /\ [][NextWalk]_vars

\* SpecIds: session ids over the process lifetime, with the ids handed out
\* so far remembered.
IdsSubmit ==
    \E s \in Ids, ok \in BOOLEAN :
        submit_preferences(s, ok) /\ IssuedUpdate /\ UNCHANGED <<walk, pending, call, top_recipes, users, db>>
IdsDetails ==
    \E s \in Ids, name \in Names, n \in -1..MaxSteps, ok \in BOOLEAN :
        get_recipe_details(s, name, n, ok) /\ UNCHANGED <<issued, walk, pending, call, top_recipes, users, db>>
IdsNextStep == \E s \in Ids : next_step(s) /\ UNCHANGED <<issued, walk, pending, call, top_recipes, users, db>>
IdsDelete == \E s \in Ids : delete_session(s) /\ UNCHANGED <<issued, walk, pending, call, top_recipes, users, db>>

NextIds == IdsSubmit \/ IdsDetails \/ IdsNextStep \/ IdsDelete

SpecIds == Init /\ [][NextIds]_vars

\* SpecRace: overlapping next_step requests.  A request is accepted (it is
\* then in flight, queued on the event loop) and later run; the handler has
\* no await, so a run is the whole handler.
RaceSubmit ==
    \E s \in Ids : submit_preferences(s, TRUE) /\ UNCHANGED <<issued, walk, pending, call, top_recipes, users, db>>
RaceDetails ==
    \E s \in Ids, name \in Names, n \in -1..MaxSteps, ok \in BOOLEAN :
        get_recipe_details(s, name, n, ok) /\ UNCHANGED <<issued, walk, pending, call, top_recipes, users, db>>
AcceptNextStep ==
    \E s \in Ids :
        /\ pending[s].inflight < MaxPending
        /\ pending' = [pending EXCEPT ![s] =
              [inflight |-> @.inflight + 1,
               appended |-> IF @.inflight = 0 THEN 0 ELSE @.appended]]
        /\ UNCHANGED <<user_sessions, resp, issued, walk, call, top_recipes, users, db>>
RunNextStep ==
    \E s \in Ids :
        /\ pending[s].inflight > 0
        /\ next_step(s)
        /\ PendingUpdate(s)
        /\ UNCHANGED <<issued, walk, call, top_recipes, users, db>>

NextRace == RaceSubmit \/ RaceDetails \/ AcceptNextStep \/ RunNextStep

SpecRace == Init /\ [][NextRace]_vars

\* SpecDetail: get_detailed_recipe applied to a requested name, against any
\* content of the recipes table and either outcome of the LLM generation.
InitDetail ==
    /\ user_sessions = << >>
    /\ resp = Response("none", NoSid, 0, FALSE)
    /\ issued = {}
    /\ walk = [s \in Ids |-> NoWalk]
    /\ pending = [s \in Ids |-> NoPending]
    /\ top_recipes = << >>
    /\ users = << >>
    /\ db = {}
    /\ \E numbering \in NameNumberings, name \in PlaceholderNames \cup PlainNames,
          comment \in NameComments, store \in SUBSET StoredNames, llm_ok \in BOOLEAN :
           call = [fn |-> "get_detailed_recipe", done |-> FALSE,
                   numbering |-> numbering, name |-> name, comment |-> comment,
                   store |-> store, llm_ok |-> llm_ok, out |-> <<>>]

GetDetailedRecipe ==
    /\ call.fn = "get_detailed_recipe" /\ ~call.done
    /\ call' = [call EXCEPT
          !.done = TRUE,
          !.out = get_detailed_recipe(Cat3(call.numbering, call.name, call.comment),
                                      call.store, call.llm_ok)]
    /\ UNCHANGED <<user_sessions, resp, issued, walk, pending, top_recipes, users, db>>

NextDetail == GetDetailedRecipe

SpecDetail == InitDetail /\ [][NextDetail]_vars

\* SpecReconcile: the reconciler applied to an LLM response, for any list of
\* candidate names.
InitReconcile ==
    /\ user_sessions = << >>
    /\ resp = Response("none", NoSid, 0, FALSE)
    /\ issued = {}
    /\ walk = [s \in Ids |-> NoWalk]
    /\ pending = [s \in Ids |-> NoPending]
    /\ top_recipes = << >>
    /\ users = << >>
    /\ db = {}
    /\ \E recipe_names \in {f \in SeqsUpTo(CandidateNames, MaxNames) : Injective(f)},
          line_specs \in SeqsUpTo(LineSpecs, MaxLines) :
           call = [fn |-> "reconcile", done |-> FALSE,
                   recipe_names |-> recipe_names, line_specs |-> line_specs, out |-> <<>>]

ReconcileNames ==
    /\ call.fn = "reconcile" /\ ~call.done
    /\ call' = [call EXCEPT
          !.done = TRUE,
          !.out = Reconcile(ResponseText(call.line_specs), call.recipe_names)]
    /\ UNCHANGED <<user_sessions, resp, issued, walk, pending, top_recipes, users, db>>

NextReconcile == ReconcileNames

SpecReconcile == InitReconcile /\ [][NextReconcile]_vars

\* SpecSerial: one list written to its column and read back.
InitSerial ==
    /\ user_sessions = << >>
    /\ resp = Response("none", NoSid, 0, FALSE)
    /\ issued = {}
    /\ walk = [s \in Ids |-> NoWalk]
    /\ pending = [s \in Ids |-> NoPending]
    /\ top_recipes = << >>
    /\ users = << >>
    /\ db = {}
    /\ \E items \in EntryLists :
           call = [fn |-> "serial", done |-> FALSE, column |-> "none",
                   items |-> items, stored |-> <<>>, out |-> <<>>]

StoreAndLoadSteps ==
    /\ call.fn = "serial" /\ ~call.done
    /\ call' = [call EXCEPT
          !.done = TRUE, !.column = "steps",
          !.stored = serialize_steps(call.items),
          !.out = deserialize_steps(serialize_steps(call.items))]
    /\ UNCHANGED <<user_sessions, resp, issued, walk, pending, top_recipes, users, db>>

StoreAndLoadStepImages ==
    /\ call.fn = "serial" /\ ~call.done
    /\ call' = [call EXCEPT
          !.done = TRUE, !.column = "step_image_urls",
          !.stored = serialize_step_images(call.items),
          !.out = deserialize_step_images(serialize_step_images(call.items))]
    /\ UNCHANGED <<user_sessions, resp, issued, walk, pending, top_recipes, users, db>>

NextSerial == StoreAndLoadSteps \/ StoreAndLoadStepImages

SpecSerial == InitSerial /\ [][NextSerial]_vars

\* SpecTop: the create and update endpoints of the top-recipes API; call
\* holds the id and the fields that are not None of the last update request.
FieldsSet(steps, step_image_urls, other_columns) ==
    (IF steps # <<>> THEN {"steps"} ELSE {})
    \cup (IF step_image_urls # <<>> THEN {"step_image_urls"} ELSE {})
    \cup (IF other_columns THEN {"other"} ELSE {})

CreateRecipe ==
    /\ Len(top_recipes) < MaxRecipes
    /\ \E steps \in StepLists, step_image_urls \in UrlLists :
          create_recipe(steps, step_image_urls)
    /\ UNCHANGED <<user_sessions, issued, walk, pending, call, users, db>>

UpdateFullRecipe ==
    /\ \E recipe_id \in 1..MaxRecipes, steps \in Optional(StepLists),
          step_image_urls \in Optional(UrlLists), other_columns \in BOOLEAN :
          /\ update_full_recipe(recipe_id, steps, step_image_urls, other_columns)
          /\ call' = [fn |-> "update_recipe", recipe_id |-> recipe_id,
                      fields |-> FieldsSet(steps, step_image_urls, other_columns)]
    /\ UNCHANGED <<user_sessions, issued, walk, pending, users, db>>

UpdateRecipeFields ==
    /\ \E recipe_id \in 1..MaxRecipes, steps \in Optional(StepLists),
          step_image_urls \in Optional(UrlLists), other_columns \in BOOLEAN :
          /\ update_recipe_fields(recipe_id, steps, step_image_urls, other_columns)
          /\ call' = [fn |-> "update_recipe", recipe_id |-> recipe_id,
                      fields |-> FieldsSet(steps, step_image_urls, other_columns)]
    /\ UNCHANGED <<user_sessions, issued, walk, pending, users, db>>

NextTop == CreateRecipe \/ UpdateFullRecipe \/ UpdateRecipeFields

SpecTop == Init /\ [][NextTop]_vars

\* SpecFind: one query of the recipes table.
InitFind ==
    /\ user_sessions = << >>
    /\ resp = Response("none", NoSid, 0, FALSE)
    /\ issued = {}
    /\ walk = [s \in Ids |-> NoWalk]
    /\ pending = [s \in Ids |-> NoPending]
    /\ top_recipes = << >>
    /\ users = << >>
    /\ db = {}
    /\ \E recipes \in Tables, region \in Regions, meal_type \in MealTypes,
          time_available \in TimeStrings, allergies \in AllergyLists,
          taste_preferences \in TastePreferences, limit \in Limits,
          integer_column \in BOOLEAN :
           call = [fn |-> "find", done |-> FALSE, recipes |-> recipes,
                   region |-> region, meal_type |-> meal_type,
                   time_available |-> time_available, allergies |-> allergies,
                   taste_preferences |-> taste_preferences, limit |-> limit,
                   integer_column |-> integer_column, out |-> <<>>]

FindRecipes ==
    /\ call.fn = "find" /\ ~call.done
    /\ \E candidates \in find_recipes(call.recipes, call.region, call.meal_type,
                                     _parse_time(call.time_available), call.allergies,
                                     call.taste_preferences, call.limit,
                                     call.integer_column) :
          call' = [call EXCEPT !.done = TRUE, !.out = candidates]
    /\ UNCHANGED <<user_sessions, resp, issued, walk, pending, top_recipes, users, db>>

NextFind == FindRecipes

SpecFind == InitFind /\ [][NextFind]_vars

\* SpecImage: one image-generation call in one environment.
InitImage ==
    /\ user_sessions = << >>
    /\ resp = Response("none", NoSid, 0, FALSE)
    /\ issued = {}
    /\ walk = [s \in Ids |-> NoWalk]
    /\ pending = [s \in Ids |-> NoPending]
    /\ top_recipes = << >>
    /\ users = << >>
    /\ db = {}
    /\ \E env \in ImageEnvs :
           call = [fn |-> "image", done |-> FALSE, env |-> env,
                   entry |-> "none", out |-> Raised(NoLog, "none")]

ImageCall(entry, out) ==
    /\ call.fn = "image" /\ ~call.done
    /\ call' = [call EXCEPT !.done = TRUE, !.entry = entry, !.out = out]
    /\ UNCHANGED <<user_sessions, resp, issued, walk, pending, top_recipes, users, db>>

GenerateImage ==
    \E backend \in BackendArguments :
        ImageCall("ImageGenerator.generate_image",
                  ImageGenerator_generate_image(call.env, backend))
GeminiImageGenerator ==
    ImageCall("OptimizedRecipeRecommender.gemini_image_generator",
              gemini_image_generator(call.env))
OptimizedGenerateImage ==
    ImageCall("OptimizedRecipeRecommender.generate_image",
              OptimizedRecipeRecommender_generate_image(call.env))
RecommenderGenerateImage ==
    ImageCall("RecipeRecommender.generate_image",
              RecipeRecommender_generate_image(call.env))

NextImage ==
    \/ GenerateImage
    \/ GeminiImageGenerator
    \/ OptimizedGenerateImage
    \/ RecommenderGenerateImage

SpecImage == InitImage /\ [][NextImage]_vars

\* SpecBatch: one batch of the bulk generator, attempt by attempt.
InitBatch ==
    /\ user_sessions = << >>
    /\ resp = Response("none", NoSid, 0, FALSE)
    /\ issued = {}
    /\ walk = [s \in Ids |-> NoWalk]
    /\ pending = [s \in Ids |-> NoPending]
    /\ top_recipes = << >>
    /\ users = << >>
    /\ db = {}
    /\ call = [fn |-> "batch", done |-> FALSE, retry_count |-> 0, invocations |-> 0,
               slept |-> 0, errors |-> <<>>, result |-> None]

BatchAttempt(outcome) ==
    /\ call.fn = "batch" /\ ~call.done
    /\ generate_recipes_batch(outcome)
    /\ UNCHANGED <<user_sessions, resp, issued, walk, pending, top_recipes, users, db>>

InvokeReturnsRecipes == BatchAttempt("recipes")
InvokeRateLimited == BatchAttempt("rate_limit")
InvokeFails == BatchAttempt("error")

NextBatch == InvokeReturnsRecipes \/ InvokeRateLimited \/ InvokeFails

SpecBatch == InitBatch /\ [][NextBatch]_vars

\* SpecRecommend: one POST /api/preferences served by the optimized
\* recommender.
InitRecommend ==
    /\ user_sessions = << >>
    /\ resp = Response("none", NoSid, 0, FALSE)
    /\ issued = {}
    /\ walk = [s \in Ids |-> NoWalk]
    /\ pending = [s \in Ids |-> NoPending]
    /\ top_recipes = << >>
    /\ users = << >>
    /\ db = {}
    /\ \E env \in RecommendEnvs :
           call = [fn |-> "recommend", done |-> FALSE, env |-> env, log |-> <<>>,
                   out |-> RecommendationResponse(NoSid, [kind |-> "raise"])]

SubmitToRecommender ==
    /\ call.fn = "recommend" /\ ~call.done
    /\ \E session_id \in Ids :
          LET recommendations_result == recommend_recipes(call.env)
          IN /\ submit_preferences(session_id, recommendations_result.kind # "raise")
             /\ call' = [call EXCEPT
                   !.done = TRUE,
                   !.log = recommendations_result.log,
                   !.out = RecommendationResponse(session_id, recommendations_result)]
    /\ UNCHANGED <<issued, walk, pending, top_recipes, users, db>>

NextRecommend == SubmitToRecommender

SpecRecommend == InitRecommend /\ [][NextRecommend]_vars

\* SpecUsers: the /api/user endpoints, requests handled one at a time.
UserSignin ==
    \E email \in Emails, db_ok \in BOOLEAN :
        user_signin(email, db_ok)
        /\ UNCHANGED <<user_sessions, issued, walk, pending, call, top_recipes, db>>
GetUser ==
    \E email \in Emails, db_ok \in BOOLEAN :
        get_user(email, db_ok)
        /\ UNCHANGED <<user_sessions, issued, walk, pending, call, top_recipes, db>>
UpdateUserPreferences ==
    \E email \in Emails, preferences \in PreferenceValues, db_ok \in BOOLEAN :
        update_user_preferences(email, preferences, db_ok)
        /\ UNCHANGED <<user_sessions, issued, walk, pending, call, top_recipes, db>>
GetUserPreferences ==
    \E email \in Emails :
        get_user_preferences_endpoint(email)
        /\ UNCHANGED <<user_sessions, issued, walk, pending, call, top_recipes, db>>

NextUsers == UserSignin \/ GetUser \/ UpdateUserPreferences \/ GetUserPreferences

SpecUsers == Init /\ [][NextUsers]_vars

\* SpecPipeline: the candidates of one recommendation request (Indian,
\* lunch, 30 mins, Spicy) on one content of the recipes table.
InitPipeline ==
    /\ user_sessions = << >>
    /\ resp = Response("none", NoSid, 0, FALSE)
    /\ issued = {}
    /\ walk = [s \in Ids |-> NoWalk]
    /\ pending = [s \in Ids |-> NoPending]
    /\ top_recipes = << >>
    /\ users = << >>
    /\ db = {}
    /\ \E n \in SafeCounts, others \in SUBSET OtherRows, others_nearest \in BOOLEAN,
          safe_embedded \in BOOLEAN, embeddings_model \in BOOLEAN,
          allergies \in AllergyLists :
           call = [fn |-> "candidates", done |-> FALSE,
                   recipes |-> PipelineTable(n, others, others_nearest, safe_embedded),
                   region |-> "Indian", meal_type |-> "lunch",
                   time_available |-> <<"3", "0", " ", "m", "i", "n", "s">>,
                   taste_preferences |-> <<Spicy>>, allergies |-> allergies,
                   embeddings_model |-> embeddings_model,
                   refined |-> FALSE, out |-> <<>>]

SelectCandidates ==
    /\ call.fn = "candidates" /\ ~call.done
    /\ \E candidates \in find_recipes(call.recipes, call.region, call.meal_type,
                                     _parse_time(call.time_available), call.allergies,
                                     call.taste_preferences, FindLimit, FALSE),
          semantic_results \in semantic_search(call.recipes, SemanticLimit) :
          call' = [call EXCEPT
                     !.done = TRUE,
                     !.refined = Refines(call.embeddings_model, candidates),
                     !.out = top_candidates(candidates, semantic_results,
                                            call.embeddings_model)]
    /\ UNCHANGED <<user_sessions, resp, issued, walk, pending, top_recipes, users, db>>

NextPipeline == SelectCandidates

SpecPipeline == InitPipeline /\ [][NextPipeline]_vars

\* SpecBulk: the bulk generator inserting the recipes of its batches, one
\* insert_recipe call after the other on one connection.
BulkInsertRecipe ==
    /\ Cardinality(TableRows(db, "recipes")) < MaxBulkRecipes
    /\ \E recipe_data \in RecipeData, region_name \in KnownRegions :
          LET inserted == bulk_insert_recipe(db, recipe_data, region_name)
          IN /\ db' = inserted.db
             /\ call' = [fn |-> "insert_recipe", name |-> recipe_data.name,
                         result |-> inserted.result, error |-> inserted.error]
    /\ UNCHANGED <<user_sessions, resp, issued, walk, pending, top_recipes, users>>

NextBulk == BulkInsertRecipe

SpecBulk == Init /\ [][NextBulk]_vars

\* SpecImageRace: image requests that overlap other requests of the session.
\* An image request is accepted (it is then in flight) and later run; both
\* image handlers are `async def` without an await and call the generator
\* synchronously, so a run is the whole handler, the generation included,
\* and the requests accepted meanwhile run before it or after it.
\* pending[s].appended counts the next_step requests that appended an entry
\* while an image request of the session was in flight.
\* The overlapping requests are those of one session.
ImageRaceIds == {"session_a"}
WhileInFlight(s) ==
    pending' = [pending EXCEPT ![s].appended =
        IF pending[s].inflight > 0 /\ Succeeded("next") /\ ~resp'.completed
          THEN Min(@ + 1, MaxPending) ELSE @]
ImageRaceSubmit ==
    \E s \in ImageRaceIds :
        /\ submit_preferences(s, TRUE)
        /\ pending' = [pending EXCEPT ![s] = NoPending]
        /\ UNCHANGED <<issued, walk, call, top_recipes, users, db>>
ImageRaceDetails ==
    \E s \in ImageRaceIds, name \in Names, n \in -1..MaxSteps, ok \in BOOLEAN :
        /\ get_recipe_details(s, name, n, ok)
        /\ UNCHANGED <<issued, walk, pending, call, top_recipes, users, db>>
ImageRaceNextStep ==
    \E s \in ImageRaceIds :
        next_step(s) /\ WhileInFlight(s) /\ UNCHANGED <<issued, walk, call, top_recipes, users, db>>
ImageRaceSkip ==
    \E s \in ImageRaceIds :
        /\ skip_to_alternatives(s)
        /\ UNCHANGED <<issued, walk, pending, call, top_recipes, users, db>>
AcceptImage ==
    \E s \in ImageRaceIds :
        /\ pending[s].inflight < MaxPending
        /\ pending' = [pending EXCEPT ![s] =
              [inflight |-> @.inflight + 1,
               appended |-> IF @.inflight = 0 THEN 0 ELSE @.appended]]
        /\ UNCHANGED <<user_sessions, resp, issued, walk, call, top_recipes, users, db>>
RunStepImage ==
    \E s \in ImageRaceIds, d \in Prompts, ok \in BOOLEAN :
        /\ pending[s].inflight > 0
        /\ generate_step_image(s, d, ok)
        /\ pending' = [pending EXCEPT ![s].inflight = @ - 1]
        /\ UNCHANGED <<issued, walk, call, top_recipes, users, db>>
RunGeminiImage ==
    \E s \in ImageRaceIds, d \in Prompts, generated \in GeneratedOutcomes :
        /\ pending[s].inflight > 0
        /\ generate_gemini_image(s, d, generated)
        /\ pending' = [pending EXCEPT ![s].inflight = @ - 1]
        /\ UNCHANGED <<issued, walk, call, top_recipes, users, db>>

NextImageRace ==
    \/ ImageRaceSubmit
    \/ ImageRaceDetails
    \/ ImageRaceNextStep
    \/ ImageRaceSkip
    \/ AcceptImage
    \/ RunStepImage
    \/ RunGeminiImage

SpecImageRace == Init /\ [][NextImageRace]_vars

\* ---------------------------------------------------------------- claims
Steps(s) == user_sessions[s].recipe_steps
Cursor(s) == user_sessions[s].current_step_index
History(s) == user_sessions[s].recipe_history

SessionOps ==
    {"details", "next", "skip", "image", "gemini_image", "alternatives", "info",
     "history", "delete"}

\* C1 as stated: from not_started with n >= 1 steps, exactly n next_step
\* calls have produced exactly one response with completed = true.
C1_Original ==
    \A s \in DOMAIN user_sessions :
        (Len(Steps(s)) >= 1 /\ walk[s].calls = Len(Steps(s))) => walk[s].done = 1

\* C1 amended: from not_started with n >= 1 steps, the first n next_step
\* calls serve the n steps and none of them carries completed = true; the
\* (n+1)-th call is the first one that does, so exactly n+1 calls reach
\* exactly one completion signal.
C1_WalkLength ==
    \A s \in DOMAIN user_sessions :
        LET n == Len(Steps(s)) IN
        (n >= 1 /\ walk[s].calls >= 0) =>
            /\ walk[s].calls <= n => (walk[s].done = 0 /\ Cursor(s) = walk[s].calls)
            /\ walk[s].calls = n + 1 => (walk[s].done = 1 /\ Cursor(s) = n)

C1_Witness ==
    \E s \in DOMAIN user_sessions :
        /\ Len(Steps(s)) = MaxSteps
        /\ walk[s].calls = Len(Steps(s)) + 1
        /\ walk[s].done = 1

\* C2: a next_step call that answers with the completion signal changes no
\* session (cursor and history stay as they were), and it is only given for a
\* session whose cursor has reached the end of a non-empty step list, so the
\* same call repeated answers the same again.
C2_CompletionIdempotent ==
    [][(resp'.op = "next" /\ resp'.completed) =>
          /\ user_sessions' = user_sessions
          /\ resp'.sid \in DOMAIN user_sessions
          /\ Steps(resp'.sid) # <<>>
          /\ Cursor(resp'.sid) >= Len(Steps(resp'.sid))]_vars

C2_Witness ==
    /\ resp.op = "next" /\ resp.completed
    /\ resp.sid \in DOMAIN user_sessions
    /\ Len(History(resp.sid)) = MaxSteps

\* C3 as stated: an id returned by submit_preferences was never returned
\* before and is not a key of the session table when it is stored.
C3_UniqueIds ==
    [][Succeeded("submit") =>
          (resp'.sid \notin issued /\ resp'.sid \notin DOMAIN user_sessions)]_vars

\* C4: right after a successful submit_preferences the returned id is a key of
\* the table with current_recipe null, cursor 0, no steps and no history; an
\* id in the table is never answered 404 by a session-scoped endpoint; and an
\* id leaves the table only through a successful delete of that id.
C4_UsableAtOnce ==
    [][/\ Succeeded("submit") =>
             /\ resp'.sid \in DOMAIN user_sessions'
             /\ user_sessions'[resp'.sid].current_recipe = None
             /\ user_sessions'[resp'.sid].current_step_index = 0
             /\ user_sessions'[resp'.sid].recipe_steps = <<>>
             /\ user_sessions'[resp'.sid].recipe_history = <<>>
       /\ \A s \in DOMAIN user_sessions :
             /\ (resp'.sid = s /\ resp'.op \in SessionOps /\ resp'.op # "delete")
                    => resp'.status # 404
             /\ s \notin DOMAIN user_sessions' => resp' = Response("delete", s, 200, FALSE)]_vars

C4_Witness ==
    /\ resp.op = "image" /\ resp.status = 400
    /\ resp.sid \in DOMAIN user_sessions
    /\ user_sessions[resp.sid] = NewSession

\* C5: a session-scoped endpoint called with an id that is not a key of the
\* session table answers 404 and leaves the table as it was.
C5_UnknownSession404 ==
    [][\A s \in Ids \ DOMAIN user_sessions :
          (resp'.sid = s /\ resp'.op \in SessionOps) =>
              (resp'.status = 404 /\ user_sessions' = user_sessions)]_vars

C5_Witness ==
    /\ resp.op = "delete" /\ resp.status = 404
    /\ resp.sid \notin DOMAIN user_sessions
    /\ user_sessions # << >>

\* C6 as stated: next step, skip and step image (either image endpoint) on a
\* session whose recipe_steps is empty answer 400 and leave the session table
\* unchanged.
C6_NoRecipe400 ==
    [][\A s \in DOMAIN user_sessions :
          (Steps(s) = <<>> /\ resp'.sid = s /\ resp'.op \in {"next", "skip", "image", "gemini_image"}) =>
              (resp'.status = 400 /\ user_sessions' = user_sessions)]_vars

\* The history holds a step_number twice, or lacks one between 1 and the cursor.
HistoryCorrupt(s) ==
    \/ \E i, j \in 1..Len(History(s)) :
          i # j /\ History(s)[i].step_number = History(s)[j].step_number
    \/ \E k \in 1..Cursor(s) :
          \A i \in 1..Len(History(s)) : History(s)[i].step_number # k

C8_SkipCompletes ==
    [][/\ Succeeded("skip") =>
             /\ user_sessions'[resp'.sid].current_step_index = Len(Steps(resp'.sid)) + 1
             /\ user_sessions'[resp'.sid].recipe_steps = Steps(resp'.sid)
             /\ user_sessions'[resp'.sid].recipe_history = History(resp'.sid)
       /\ \A s \in DOMAIN user_sessions :
             (Cursor(s) = Len(Steps(s)) + 1 /\ resp'.op = "next" /\ resp'.sid = s) =>
                 (resp'.status = 200 /\ resp'.completed /\ user_sessions' = user_sessions)]_vars

\* C9: a requested name that is a placeholder 'Recipe <digits>' (any case)
\* behind an optional 'N. ' numbering and in front of an optional ' - ...'
\* comment makes get_detailed_recipe issue no SELECT against the recipes table
\* and go to the freeform LLM generation, whatever the table holds.
C9_PlaceholderBypass ==
    (call.fn = "get_detailed_recipe" /\ call.done /\ call.name \in PlaceholderNames) =>
        (call.out.queries = <<>> /\ call.out.route = "llm")

C9_Witness ==
    /\ call.fn = "get_detailed_recipe" /\ call.done
    /\ call.name = <<"R", "e", "c", "i", "p", "e", " ", "2">>
    /\ call.numbering = <<"1", ".", " ">>
    /\ call.comment # <<>>
    /\ call.name \in call.store
    /\ call.out.route = "llm"

\* Position of line p among the numbered lines of the response.
NumberedUpTo(line_specs, p) == Cardinality({q \in 1..p : line_specs[q] \in LlmNames})

\* C10 as stated: a numbered line whose name is, character for character, one
\* of the candidate names is left unchanged in the corrected response, and the
\* mapping entry of its position (among the first three) is that name.
C10_EchoRoundTrip ==
    (call.fn = "reconcile" /\ call.done) =>
        \A p \in 1..Len(call.line_specs) :
            LET name == call.line_specs[p]
                pos == NumberedUpTo(call.line_specs, p)
            IN (name \in LlmNames /\ \E i \in 1..Len(call.recipe_names) : call.recipe_names[i] = name) =>
                  /\ p \in DOMAIN call.out.response
                  /\ call.out.response[p] = LineText(name, p)
                  /\ pos <= TopN =>
                        (pos <= Len(call.out.recipe_mapping) /\ call.out.recipe_mapping[pos] = name)

\* C11: whatever the LLM's response, the recipe mapping has exactly
\* min(3, number of lines of the numbered-name form) entries, keyed
\* "Recipe 1".."Recipe k" (the positions 1..k of recipe_mapping), and the
\* corrected response has as many lines as the raw response.
C11_MappingAndLines ==
    (call.fn = "reconcile" /\ call.done) =>
        LET named == {p \in 1..Len(call.line_specs) : call.line_specs[p] \in LlmNames}
        IN /\ Len(call.out.recipe_mapping) = Min(TopN, Cardinality(named))
           /\ DOMAIN call.out.recipe_mapping = 1..Min(TopN, Cardinality(named))
           /\ Len(call.out.response) = Len(ResponseText(call.line_specs))

\* C12: for every list of steps and every list of step-image URLs (entries
\* may be empty, none holds the delimiter), reading back what was written
\* gives the same list: same length, empty entries kept.
C12_DelimiterRoundTrip ==
    (call.fn = "serial" /\ call.done) => call.out = call.items

\* C13: after any sequence of create, full-update and partial-field-update
\* requests, every row of top_recipes has as many step_image_urls as steps.
C13_StepImagesLength ==
    \A recipe_id \in DOMAIN top_recipes :
        Len(top_recipes[recipe_id].step_image_urls) = Len(top_recipes[recipe_id].steps)

\* The time ceiling each time_available of the model stands for.
MinutesOf(time_available) ==
    CASE time_available = <<"3", "0", " ", "m", "i", "n", "s">> -> 30
      [] time_available = <<"4", "5", " ", "m", "i", "n", "s">> -> 45
      [] time_available = <<"1", " ", "h", "o", "u", "r">> -> 60

ScenarioFirst == Row("A", "Indian", {"lunch"}, 25, <<Spicy>>, {}, 50)
ScenarioSecond == Row("B", "Indian", {"dinner"}, 20, <<Sweet>>, {}, 90)
\* Indian / lunch / 30 mins / Spicy, no allergies, as recommend_recipes asks
\* for it, on a table that holds both recipes of the scenario.
ScenarioAsked ==
    /\ call.fn = "find" /\ call.done
    /\ call.region = "Indian" /\ call.meal_type = "lunch"
    /\ call.time_available = <<"3", "0", " ", "m", "i", "n", "s">>
    /\ call.taste_preferences = <<Spicy>> /\ call.allergies = {}
    /\ call.limit = 20
    /\ {ScenarioFirst, ScenarioSecond} \subseteq call.recipes

\* C14: find_recipes returns at most limit rows; every one has the requested
\* cuisine, the requested meal type among its meal types, a total time within
\* the ceiling and no excluded allergen; the rows are in descending order of
\* match score and, at equal score, of popularity.  In the scenario the
\* 25-minute Spicy lunch recipe is in the list and the 20-minute Sweet dinner
\* recipe is nowhere at or above its position.
C14_FindRecipes ==
    (call.fn = "find" /\ call.done) =>
        LET out == call.out IN
        /\ Len(out) <= call.limit
        /\ \A i \in 1..Len(out) :
              /\ out[i].row \in call.recipes
              /\ out[i].row.cuisine_type = call.region
              /\ call.meal_type \in out[i].row.meal_type
              /\ out[i].row.total_time_minutes <= MinutesOf(call.time_available)
              /\ out[i].row.allergens \cap call.allergies = {}
        /\ \A i, j \in 1..Len(out) :
              i < j =>
                /\ ~RatioLess(out[i].match_score, out[j].match_score)
                /\ out[i].match_score[1] * out[j].match_score[2]
                     = out[j].match_score[1] * out[i].match_score[2]
                   => out[i].row.popularity_score >= out[j].row.popularity_score
        /\ ScenarioAsked =>
              \E i \in 1..Len(out) :
                  /\ out[i].row = ScenarioFirst
                  /\ \A j \in 1..Len(out) : out[j].row # ScenarioSecond

\* C14 witness: the scenario was asked on a table of three recipes, two of
\* them came back in order, the Spicy lunch recipe among them.
C14_Witness ==
    /\ ScenarioAsked
    /\ Cardinality(call.recipes) = MaxRows
    /\ Len(call.out) >= 2
    /\ \E i \in 1..Len(call.out) : call.out[i].row = ScenarioFirst

\* Two rows that differ in popularity_score only.
SameButPopularity(a, b) ==
    [a EXCEPT !.popularity_score = 0] = [b EXCEPT !.popularity_score = 0]

\* C15: of two returned candidates that differ in popularity only, the more
\* popular one never has the lower match score; and when no taste is
\* requested the taste term is zero (the denominator being floored at 1):
\* the score of a returned row is 2 + 2 + 1 + its popularity term / 100.
C15_PopularityMonotone ==
    (call.fn = "find" /\ call.done) =>
        LET out == call.out IN
        /\ \A i, j \in 1..Len(out) :
              (/\ SameButPopularity(out[i].row, out[j].row)
               /\ out[i].row.popularity_score > out[j].row.popularity_score)
              => ~RatioLess(out[i].match_score, out[j].match_score)
        /\ call.taste_preferences = <<>> =>
              \A i \in 1..Len(out) :
                  /\ out[i].match_score[2] > 0
                  /\ out[i].match_score[1] * 100
                       = (500 + PopularityTerm(out[i].row.popularity_score,
                                               call.integer_column))
                         * out[i].match_score[2]

C15_Witness ==
    /\ call.fn = "find" /\ call.done
    /\ call.taste_preferences = <<>>
    /\ \E i, j \in 1..Len(call.out) :
          /\ SameButPopularity(call.out[i].row, call.out[j].row)
          /\ call.out[i].row.popularity_score > call.out[j].row.popularity_score

\* The backend calls of a result's log, and whether the last one raised.
BackendCalls(log) == {i \in 1..Len(log) : log[i] \in Backends}
BackendThrew ==
    /\ call.out.log # <<>>
    /\ LET last == call.out.log[Len(call.out.log)]
       IN \/ last = "gemini" /\ call.env.remote = "raises"
          \/ last = "stable_diffusion" /\ call.env.local = "raises"

\* C16: an exception of the backend (the remote API call or the local
\* pipeline) never leaves the call: the result is (no image, the prompt); the
\* one failure of these steps that raises is the missing API key.
C16_BackendExceptionCaught ==
    (call.fn = "image" /\ call.done) =>
        /\ BackendThrew =>
              (call.out.raised = "none" /\ call.out.image = None /\ call.out.text = "prompt")
        /\ call.out.raised \in {"generation_failed", "not_configured"} => ~call.env.api_key

GenerateImageEntries ==
    {"ImageGenerator.generate_image", "OptimizedRecipeRecommender.generate_image",
     "RecipeRecommender.generate_image"}

\* C17 as stated: every generate_image call obtains the prompt first, then
\* invokes exactly one backend, and returns the prompt as its text, also
\* with no image.
C17_Original ==
    (call.fn = "image" /\ call.done /\ call.entry \in GenerateImageEntries) =>
        /\ call.out.log # <<>> /\ call.out.log[1] = "prompt"
        /\ Cardinality(BackendCalls(call.out.log)) = 1
        /\ call.out.text = "prompt"

\* C17 amended: a generate_image call invokes at most one backend and none
\* before it has the prompt; a call that returns without a cache hit returns
\* the prompt as its text, also with no image; the optimized recommender
\* looks up the image cache first and on a hit returns the cached URL notice
\* with neither a prompt nor a backend call.
C17_PromptThenBackend ==
    (call.fn = "image" /\ call.done /\ call.entry \in GenerateImageEntries) =>
        LET log == call.out.log
            hit == call.entry = "OptimizedRecipeRecommender.generate_image" /\ call.env.cached
        IN /\ Cardinality(BackendCalls(log)) <= 1
           /\ \A i \in BackendCalls(log) : \E j \in 1..(i - 1) : log[j] = "prompt"
           /\ (call.out.raised = "none" /\ ~hit) =>
                 (call.out.text = "prompt" /\ \E j \in 1..Len(log) : log[j] = "prompt")
           /\ hit => (log = <<"get_recipe_image">> /\ call.out.image = None
                      /\ call.out.text = "cached_url")

\* C17 witness: a backend was invoked after the prompt, raised, and the call
\* returned the prompt with no image.
C17_Witness ==
    /\ call.fn = "image" /\ call.done /\ call.entry \in GenerateImageEntries
    /\ BackendThrew
    /\ call.out.raised = "none" /\ call.out.image = None /\ call.out.text = "prompt"

\* C18 as stated: for one batch the model is invoked at most 5 times in
\* total, the first attempt included.
C18_Original ==
    call.fn = "batch" => call.invocations <= 5

\* C18 amended: the retry is bounded at 5 retries, so for one batch the model
\* is invoked at most 6 times in total (the first attempt and 5 retries),
\* whatever mix of rate-limit and other errors occurs; after the sixth failed
\* attempt the function has returned None, and it returns None in no other
\* case.
C18_RetryBound ==
    call.fn = "batch" =>
        /\ call.invocations <= MAX_RETRIES + 1
        /\ call.retry_count <= MAX_RETRIES
        /\ call.invocations = MAX_RETRIES + 1 => call.done
        /\ (call.done /\ call.result = None) =>
              (call.invocations = MAX_RETRIES + 1 /\ Len(call.errors) = MAX_RETRIES + 1)

\* C18 witness: six attempts failed, some on the rate limit and some not,
\* and the batch ended with None.
C18_Witness ==
    /\ call.fn = "batch" /\ call.done /\ call.result = None
    /\ call.invocations = MAX_RETRIES + 1
    /\ \E i, j \in 1..Len(call.errors) :
          call.errors[i] = "rate_limit" /\ call.errors[j] = "error"

\* C19: when find_recipes returns no row, recommend_recipes makes no
\* embedding, semantic-search or LLM call, and submit_preferences answers 200
\* with success = true, the 'no recipes found' message as recommendations and
\* the id of a stored session.
C19_NoCandidatesMessage ==
    (call.fn = "recommend" /\ call.done /\ call.env.db_ok /\ call.env.candidates = 0) =>
        /\ \A i \in 1..Len(call.log) :
              call.log[i] \notin {"embed_query", "semantic_search", "llm"}
        /\ call.out.status = 200 /\ resp.status = 200
        /\ call.out.success
        /\ call.out.recommendations = NoRecipesMessage
        /\ call.out.session_id \in DOMAIN user_sessions
        /\ call.out.session_id = resp.sid

\* C19 witness: no row came back while an embeddings model is configured and
\* the LLM would have failed; the answer is the message.
C19_Witness ==
    /\ call.fn = "recommend" /\ call.done /\ call.env.db_ok /\ call.env.candidates = 0
    /\ call.env.embeddings_model /\ ~call.env.llm_ok
    /\ call.log = <<"find_recipes">>
    /\ call.out.success /\ call.out.recommendations = NoRecipesMessage

\* C20: a detail fetch that succeeds sets current_recipe to the requested
\* name, recipe_steps to the parsed steps, current_step_index to 0 and
\* recipe_history to empty, whatever they were; a detail fetch that answers
\* 500 leaves every session as it was.
C20_DetailFetch ==
    [][resp'.op = "details" =>
          /\ resp'.status = 200 =>
                /\ resp'.sid \in DOMAIN user_sessions
                /\ DOMAIN user_sessions' = DOMAIN user_sessions
                /\ \A s \in DOMAIN user_sessions \ {resp'.sid} :
                      user_sessions'[s] = user_sessions[s]
                /\ \E name \in Names, n \in 0..MaxSteps :
                      user_sessions'[resp'.sid] =
                          [current_recipe     |-> name,
                           current_step_index |-> 0,
                           recipe_steps       |-> ParsedSteps(name, n),
                           recipe_history     |-> <<>>]
          /\ resp'.status = 500 => user_sessions' = user_sessions]_vars

\* The operations that run between two detail fetches.
WalkingOps == {"next", "skip", "image", "gemini_image", "alternatives", "info", "history"}

\* C21: next step, skip, step image (either endpoint), alternatives, session
\* info and history leave every session's recipe_steps as they are, keep
\* every history entry in its place with its step_number and step_text (the
\* history only grows at its end), never lower the cursor, and neither add
\* nor remove a session.
C21_FrameEffect ==
    [][resp'.op \in WalkingOps =>
          /\ DOMAIN user_sessions' = DOMAIN user_sessions
          /\ \A s \in DOMAIN user_sessions :
                /\ user_sessions'[s].recipe_steps = Steps(s)
                /\ user_sessions'[s].current_step_index >= Cursor(s)
                /\ Len(user_sessions'[s].recipe_history) >= Len(History(s))
                /\ \A i \in 1..Len(History(s)) :
                      /\ user_sessions'[s].recipe_history[i].step_number
                            = History(s)[i].step_number
                      /\ user_sessions'[s].recipe_history[i].step_text
                            = History(s)[i].step_text]_vars

\* C21 witness: an image request marked the last entry of a history of
\* MaxSteps entries, the earlier ones still in place.
C21_Witness ==
    /\ resp.op = "image" /\ resp.status = 200
    /\ resp.sid \in DOMAIN user_sessions
    /\ Len(History(resp.sid)) = MaxSteps
    /\ History(resp.sid)[MaxSteps].image_generated
    /\ \A i \in 1..MaxSteps : History(resp.sid)[i].step_number = i

\* patterns = [clean_name, f"{clean_name}%", f"%{clean_name}%"]
FuzzyKinds == <<"exact", "prefix", "substring">>

\* C22 as stated: for every non-placeholder name whose exact match misses,
\* the fuzzy patterns are tried, and the LLM generation is reached only when
\* every one of them misses.
C22_Original ==
    (/\ call.fn = "get_detailed_recipe" /\ call.done
     /\ ~IsPlaceholder(call.out.clean_name)
     /\ ~Hit(call.store, "exact", call.out.clean_name)) =>
        /\ Len(call.out.queries) >= 2
        /\ call.out.route = "llm" =>
              \A k \in 1..3 : ~Hit(call.store, FuzzyKinds[k], call.out.clean_name)

\* C22 amended: for a non-placeholder name the exact case-insensitive match
\* is attempted first and a hit is returned; on a miss, a cleaned name of at
\* least 4 characters is tried against the fuzzy patterns exact, prefix,
\* substring in this order, each one queried only when all before it missed,
\* and the first hit is returned; the LLM generation is reached when all of
\* them miss, and also, with no fuzzy pattern tried, when the exact match of
\* a cleaned name of 3 characters or fewer misses.
C22_ExactThenFuzzy ==
    (call.fn = "get_detailed_recipe" /\ call.done /\ ~IsPlaceholder(call.out.clean_name)) =>
        LET text == call.out.clean_name
            q == call.out.queries
            hits == {k \in 1..3 : Hit(call.store, FuzzyKinds[k], text)}
        IN /\ q # <<>> /\ q[1] = "by_name"
           /\ Hit(call.store, "exact", text) =>
                 (q = <<"by_name">> /\ call.out.route = "db")
           /\ (~Hit(call.store, "exact", text) /\ Len(text) > 3) =>
                 /\ Len(q) <= 4
                 /\ \A k \in 1..3 :
                       (k + 1 \in DOMAIN q) <=> (\A j \in 1..(k - 1) : j \notin hits)
                 /\ \A k \in 2..Len(q) : q[k] = FuzzyKinds[k - 1]
                 /\ (call.out.route = "db") <=> (hits # {})
           /\ (~Hit(call.store, "exact", text) /\ Len(text) <= 3) =>
                 (q = <<"by_name">> /\ call.out.route = "llm")
           /\ call.out.route \in {"db", "llm"}
           /\ call.out.raised <=> (call.out.route = "llm" /\ ~call.llm_ok)

\* C22 witness: the exact match, the fuzzy exact pattern and the prefix
\* pattern missed, the substring pattern hit and the stored row came back.
C22_Witness ==
    /\ call.fn = "get_detailed_recipe" /\ call.done
    /\ ~IsPlaceholder(call.out.clean_name)
    /\ call.numbering # <<>> /\ call.comment # <<>>
    /\ call.out.queries = <<"by_name", "exact", "prefix", "substring">>
    /\ call.out.route = "db"

\* C23: GET /api/user/{email} for an email that is not a key of the users
\* table answers 404.
C23_UnknownUser404 ==
    [][\A email \in Emails \ DOMAIN users :
          (resp'.op = "get_user" /\ resp'.sid = email) => resp'.status = 404]_vars

\* C24: every candidate handed to the LLM ranker is a row of the table that
\* shares no allergen with the user's exclusion set, has the requested
\* cuisine, the requested meal type among its meal types and a total time
\* within the ceiling - also when the semantic refiner ran.
C24_AllergenSafety ==
    (call.fn = "candidates" /\ call.done) =>
        \A i \in 1..Len(call.out) :
            /\ call.out[i].row \in call.recipes
            /\ call.out[i].row.allergens \cap call.allergies = {}
            /\ call.out[i].row.cuisine_type = call.region
            /\ call.meal_type \in call.out[i].row.meal_type
            /\ call.out[i].row.total_time_minutes <= MinutesOf(call.time_available)

\* C25: with requests handled one at a time, in every reachable state each
\* session's recipe_history has k <= len(recipe_steps) entries, their
\* step_numbers are 1..k in order, entry i's step_text is recipe_steps[i-1]
\* (the i-th step), k <= current_step_index, and
\* 0 <= current_step_index <= len(recipe_steps) + 1.
C25_SessionInvariant ==
    \A s \in DOMAIN user_sessions :
        LET k == Len(History(s)) IN
        /\ k <= Len(Steps(s))
        /\ \A i \in 1..k :
              /\ History(s)[i].step_number = i
              /\ History(s)[i].step_text = Steps(s)[i]
        /\ k <= Cursor(s)
        /\ 0 <= Cursor(s)
        /\ Cursor(s) <= Len(Steps(s)) + 1

\* C25 witness: a session walked through all of its MaxSteps steps, with an
\* image generated for the last one, and then skipped to the alternatives.
C25_Witness ==
    \E s \in DOMAIN user_sessions :
        /\ Len(Steps(s)) = MaxSteps
        /\ Len(History(s)) = MaxSteps
        /\ History(s)[MaxSteps].image_generated
        /\ Cursor(s) = MaxSteps + 1

\* C26: a preference submission that is answered 500 leaves the session
\* table as it was: no entry created for the request remains.
C26_FailedSubmitUnchanged ==
    [][(resp'.op = "submit" /\ resp'.status = 500) => user_sessions' = user_sessions]_vars

\* C27: every value of the recipe mapping the reconciler produces is one of
\* the candidate names handed to the LLM, whatever the response and the
\* candidate list, also for a name without a close match at a position past
\* the end of the candidate list.
C27_MappingCanonical ==
    (call.fn = "reconcile" /\ call.done) =>
        \A k \in DOMAIN call.out.recipe_mapping :
            \E i \in 1..Len(call.recipe_names) :
                call.recipe_names[i] = call.out.recipe_mapping[k]

\* C28: an insert_recipe call that returns None because an error occurred
\* leaves no row of that recipe committed: no recipes row, region link,
\* taste, meal type, tag, ingredient link or instruction that was not there
\* before the call.
C28_AllOrNothing ==
    [][(call'.fn = "insert_recipe" /\ call'.result = <<>> /\ call'.error) =>
          \A r \in db' \ db : r.table = "ingredients"]_vars

\* C29: PUT and PATCH on the id of a stored recipe are never answered 404,
\* whatever the body, also one with no field set, and a body with no field
\* set leaves the stored recipe as it was; 404 is only for an id that no
\* recipe has.
C29_NotFoundOnlyForUnknownId ==
    [][(resp'.op \in {"update_full_recipe", "update_recipe_fields"}
        /\ call'.fn = "update_recipe" /\ call'.recipe_id \in DOMAIN top_recipes) =>
          /\ resp'.status # 404
          /\ call'.fields = {} => top_recipes' = top_recipes]_vars

\* C30: an image request, whatever ran between its acceptance and its run,
\* leaves the cursor, the steps and the number of history entries of every
\* session as they are, and the one entry it may change is the last one, of
\* which it sets image_generated and image_prompt only, and whose step_text
\* is the step the image prompt was built from (recipe_steps at the cursor,
\* the first step for cursor 0).
C30_ImageMarksOwnStep ==
    [][\A s \in DOMAIN user_sessions :
          (resp'.op \in {"image", "gemini_image"} /\ resp'.sid = s
           /\ pending'[s].inflight < pending[s].inflight) =>
              LET current_step == Steps(s)[IF Cursor(s) = 0 THEN 1 ELSE Cursor(s)]
                  h == History(s)
              IN /\ DOMAIN user_sessions' = DOMAIN user_sessions
                 /\ \A o \in DOMAIN user_sessions \ {s} : user_sessions'[o] = user_sessions[o]
                 /\ user_sessions'[s].current_step_index = Cursor(s)
                 /\ user_sessions'[s].recipe_steps = Steps(s)
                 /\ user_sessions'[s].current_recipe = user_sessions[s].current_recipe
                 /\ Len(user_sessions'[s].recipe_history) = Len(h)
                 /\ \A i \in 1..Len(h) :
                       user_sessions'[s].recipe_history[i] # h[i] =>
                           /\ i = Len(h)
                           /\ h[i].step_text = current_step
                           /\ user_sessions'[s].recipe_history[i].step_number = h[i].step_number
                           /\ user_sessions'[s].recipe_history[i].step_text = h[i].step_text
                           /\ user_sessions'[s].recipe_history[i].image_generated]_vars

\* C30 witness: an image request was accepted, next_step requests appended
\* entries while it was in flight, and it then ran and marked the last of
\* MaxSteps entries.
C30_Witness ==
    \E s \in DOMAIN user_sessions :
        /\ pending[s].inflight = 0 /\ pending[s].appended >= 1
        /\ resp.op = "image" /\ resp.status = 200 /\ resp.sid = s
        /\ Len(History(s)) = MaxSteps
        /\ History(s)[MaxSteps].image_generated
        /\ ~History(s)[1].image_generated

====
